---- MODULE Spec2Model ----
(***************************************************************************)
(* Commit graph layout engine of should-i-git: the graph classifier        *)
(* (buildTreeStructure) and the path builder of the GitTree component.     *)
(*                                                                         *)
(* A commit list is a sequence of records [commit, parent, refs].          *)
(*   commit : the commit id (a string)                                     *)
(*   parent : the result of parent.split(' '), a sequence of tokens; the   *)
(*            empty string yields the single token ""                      *)
(*   refs   : the raw ref text, as the sequence of its comma-separated     *)
(*            refs after trimming; one ref is [lhs, arrow, rhs], the text  *)
(*            "lhs -> rhs" (arrow) or "lhs" (no arrow), and lhs and rhs    *)
(*            are the sequences of their '/'-separated segments            *)
(***************************************************************************)
EXTENDS Integers, Sequences, FiniteSets, TLC

\* ------------------------------------------------------------------------
\* Bounds of the checked input family
\* ------------------------------------------------------------------------
MaxCommits == 3
MaxLabelled == 2
MaxDrawn == 2
MaxChain == 5
MaxTips == 10
MaxRefs == 2
MaxRemounts == 3

\* ------------------------------------------------------------------------
\* Constants of the program
\* ------------------------------------------------------------------------
BRANCH_COLORS ==
  << "#3b82f6", "#ef4444", "#10b981", "#f59e0b", "#8b5cf6",
     "#ec4899", "#06b6d4", "#84cc16", "#f97316", "#6366f1" >>

\* BRANCH_COLORS[i] of the source (0-based)
Palette(i) == BRANCH_COLORS[i + 1]

\* the value null of mainBranch, foundLane, foundBranch, a missing node
Null == "<null>"

\* iteration caps of the two fixed-point loops of the descendant marking
AdditionalPassLimit == 10
FinalPassLimit == 20

\* ------------------------------------------------------------------------
\* Sequence helpers (Array.prototype.includes / findIndex / some)
\* ------------------------------------------------------------------------
Range(s) == { s[i] : i \in DOMAIN s }

Includes(s, x) == \E i \in DOMAIN s : s[i] = x

RECURSIVE FoldLeft(_, _, _)
FoldLeft(Op(_, _), acc, s) ==
  IF s = << >> THEN acc
  ELSE CHOOSE r \in { FoldLeft(Op, next, Tail(s)) : next \in {Op(acc, Head(s))} } : TRUE

Reverse(s) == [ i \in 1..Len(s) |-> s[Len(s) + 1 - i] ]

\* const v = ...; followed by the statements Body that use v
With(v, Body(_)) == Body(v)

\* ------------------------------------------------------------------------
\* Ref text
\* ------------------------------------------------------------------------
Ref(lhs, arrow, rhs) == [lhs |-> lhs, arrow |-> arrow, rhs |-> rhs]

\* String.prototype.sort order (UTF-16 code units) of the names that occur
NameOrder ==
  << "HEAD", "b01", "b02", "b03", "b04", "b05", "b06", "b07", "b08", "b09",
     "b10", "b11", "b12", "dev", "feature", "feature-branch", "main",
     "master", "tag: v1.0", "topic" >>

NameRank(n) == CHOOSE i \in DOMAIN NameOrder : NameOrder[i] = n

\* a sort that puts the names in descending order
SortNamesDescending(S) == SelectSeq(Reverse(NameOrder), LAMBDA n : n \in S)

\* [...new Set(branches)].sort()
SortNames(S) == SelectSeq(NameOrder, LAMBDA n : n \in S)

\* one ref of the loop in parseBranchRefs: the local branch name it adds,
\* or Null when the ref is skipped
LocalBranchOfRef(ref) ==
  IF (~ref.arrow /\ ref.lhs = <<"HEAD">>) \/ (ref.arrow /\ ref.rhs = <<"HEAD">>)
  THEN Null
  ELSE LET branchName == IF ref.arrow THEN ref.rhs ELSE ref.lhs
           localBranchName ==
             IF Len(branchName) >= 2 /\ branchName[1] = "origin"
             THEN Tail(branchName) ELSE branchName
       IN IF branchName = << >> THEN Null
          ELSE IF Len(localBranchName) = 1 /\ localBranchName[1] # "HEAD"
               THEN localBranchName[1] ELSE Null

\* parseBranchRefs of the current tree component
parseBranchRefs(refs) ==
  LET refsList == SelectSeq(refs, LAMBDA r : r.arrow \/ r.lhs # << >>)
      names == { LocalBranchOfRef(refsList[i]) : i \in DOMAIN refsList } \ {Null}
  IN SortNames(names)

\* a piece of ref text between two commas that holds white space only
BlankPiece == Ref(<< >>, FALSE, << >>)

\* !refs || !refs.trim(): the text holds no comma and white space only
IsBlank(refs) == refs = << >> \/ refs = << BlankPiece >>

\* refs.split(',').map(ref => ref.trim()).filter(ref => ref.length > 0)
RefsList(refs) == SelectSeq(refs, LAMBDA r : r # BlankPiece)

\* ref === 'HEAD' || ref.endsWith(' -> HEAD')
IsHeadRef(ref) ==
  (~ref.arrow /\ ref.lhs = <<"HEAD">>) \/ (ref.arrow /\ ref.rhs = <<"HEAD">>)

\* branchName.startsWith('origin/') ? branchName.substring(7) : branchName
StripOrigin(branchName) ==
  IF Len(branchName) >= 2 /\ branchName[1] = "origin"
  THEN Tail(branchName) ELSE branchName

\* [...new Set(branches)].sort() of a list of names without a slash
SortBranches(branches) == SortNames({ b[1] : b \in Range(branches) })

\* the loop body of parseBranchRefs in branch-colors.ts; branches holds the
\* names pushed so far (seenLocalBranches holds the same names)
ColorsStep(branches, ref) ==
  IF IsHeadRef(ref) THEN branches
  ELSE With(IF ref.arrow THEN ref.rhs ELSE ref.lhs, LAMBDA branchName :
         IF branchName = << >> THEN branches
         ELSE With(StripOrigin(branchName), LAMBDA localBranchName :
                IF Len(localBranchName) = 1 /\ localBranchName # <<"HEAD">>
                   /\ ~Includes(branches, localBranchName)
                THEN Append(branches, localBranchName)
                ELSE branches))

\* parseBranchRefs of branch-colors.ts
parseBranchRefsColors(refs) ==
  IF IsBlank(refs) THEN << >>
  ELSE SortBranches(FoldLeft(ColorsStep, << >>, RefsList(refs)))

\* the loop body of parseBranchRefs in GitTree.tsx
GitTreeStep(branches, ref) ==
  IF IsHeadRef(ref) THEN branches
  ELSE IF ref.arrow
       THEN IF ref.rhs # << >> /\ ref.rhs # <<"HEAD">> /\ Len(ref.rhs) = 1
            THEN Append(branches, ref.rhs) ELSE branches
       ELSE IF Len(ref.lhs) = 1 THEN Append(branches, ref.lhs) ELSE branches

\* parseBranchRefs of GitTree.tsx
parseBranchRefsGitTree(refs) ==
  IF IsBlank(refs) THEN << >>
  ELSE SortBranches(FoldLeft(GitTreeStep, << >>, RefsList(refs)))

\* the loop body of parseBranchRefs in GitWindow.tsx
GitWindowStep(branches, ref, hideRemoteBranches) ==
  IF IsHeadRef(ref) THEN branches
  ELSE With(IF ref.arrow THEN ref.rhs ELSE ref.lhs, LAMBDA branchName :
         IF branchName = << >> THEN branches
         ELSE With(StripOrigin(branchName), LAMBDA localBranchName :
                IF Len(localBranchName) = 1 /\ localBranchName # <<"HEAD">>
                THEN IF hideRemoteBranches
                     THEN IF ~Includes(branches, localBranchName)
                          THEN Append(branches, localBranchName) ELSE branches
                     ELSE IF ~Includes(branches, localBranchName)
                             /\ ~Includes(branches, branchName)
                          THEN Append(branches, localBranchName) ELSE branches
                ELSE branches))

\* parseBranchRefs(refs, hideRemoteBranches) of GitWindow.tsx
parseBranchRefsGitWindow(refs, hideRemoteBranches) ==
  IF IsBlank(refs) THEN << >>
  ELSE SortBranches(FoldLeft(LAMBDA acc, ref :
                               GitWindowStep(acc, ref, hideRemoteBranches),
                             << >>, RefsList(refs)))

\* commit.parent.split(' ').filter(p => p.trim())
ParentsOf(parent) == SelectSeq(parent, LAMBDA p : p # "")


\* ------------------------------------------------------------------------
\* buildTreeStructure: nodes and main branch
\* ------------------------------------------------------------------------
CommitIds(commits) == { commits[i].commit : i \in DOMAIN commits }

\* commits.findIndex(c => c.commit === id), 1-based; 0 stands for -1
FindIndex(commits, id) ==
  IF \E i \in DOMAIN commits : commits[i].commit = id
  THEN CHOOSE i \in DOMAIN commits :
         /\ commits[i].commit = id
         /\ \A j \in 1..(i - 1) : commits[j].commit # id
  ELSE 0

\* the Map nodes after "Create nodes"; index is 0-based as in the source
CreateNodes(commits) ==
  [ id \in CommitIds(commits) |->
      LET i == CHOOSE j \in DOMAIN commits :
                 /\ commits[j].commit = id
                 /\ \A k \in (j + 1)..Len(commits) : commits[k].commit # id
      IN [ commit |-> id,
           parent |-> commits[i].parent,
           branchRefs |-> parseBranchRefs(commits[i].refs),
           index |-> i - 1,
           lane |-> 0,
           isOnMainLine |-> FALSE ] ]

\* nodes.has(id)
HasNode(nodes, id) == id \in DOMAIN nodes

\* the loop "Identify main branch": the first commit that carries main or
\* master decides
RECURSIVE DetectMainBranch(_, _)
DetectMainBranch(commits, i) ==
  IF i > Len(commits) THEN Null
  ELSE LET branchRefs == parseBranchRefs(commits[i].refs)
       IN IF Includes(branchRefs, "main") THEN "main"
          ELSE IF Includes(branchRefs, "master") THEN "master"
          ELSE DetectMainBranch(commits, i + 1)

\* mainBranch || ''
MainOrEmpty(mainBranch) == IF mainBranch = Null THEN "" ELSE mainBranch

\* commits.find(c => parseBranchRefs(c.refs).includes(mainBranch || '')),
\* as an index; 0 when there is none
MainTipIndex(commits, mainBranch) ==
  LET hits == { i \in DOMAIN commits :
                  Includes(parseBranchRefs(commits[i].refs), MainOrEmpty(mainBranch)) }
  IN IF hits = {} THEN 0 ELSE CHOOSE i \in hits : \A j \in hits : i <= j

\* ------------------------------------------------------------------------
\* Traversals.  Every loop "while (queue.length > 0)" is unrolled with a
\* budget of dequeues: a visited set admits every id at most once, so a
\* traversal over N commits dequeues at most N ids; a traversal that
\* exceeds the budget is one that does not terminate (hung).
\* ------------------------------------------------------------------------
Fuel(commits) == Len(commits) + 1

\* a traversal that forgets its visited set
UnvisitedAlways(visited, id) == TRUE

\* !visited.has(id)
Unvisited(visited, id) == id \notin visited

\* for (const parent of parents) { if (!visited.has(parent) && <admit>) {
\*   visited.add(parent); queue.push(parent) } }
PushParents(parents, visited, Admit(_)) ==
  FoldLeft(LAMBDA acc, p :
             IF Unvisited(acc.visited, p) /\ Admit(p)
             THEN [visited |-> acc.visited \cup {p}, queue |-> Append(acc.queue, p)]
             ELSE acc,
           [visited |-> visited, queue |-> << >>], parents)

\* breadth-first walk along parent ids; visited is the set of ids reached
RECURSIVE ParentTrace(_, _, _, _, _)
ParentTrace(nodes, queue, visited, Admit(_), fuel) ==
  IF queue = << >> THEN [hung |-> FALSE, visited |-> visited]
  ELSE IF fuel = 0 THEN [hung |-> TRUE, visited |-> visited]
  ELSE IF ~HasNode(nodes, Head(queue))
       THEN ParentTrace(nodes, Tail(queue), visited, Admit, fuel - 1)
       ELSE With(PushParents(ParentsOf(nodes[Head(queue)].parent), visited, Admit),
                 LAMBDA step :
                   ParentTrace(nodes, Tail(queue) \o step.queue, step.visited,
                               Admit, fuel - 1))

\* commits.forEach(c => { if (cParents.includes(current) &&
\*   !visited.has(c.commit)) ... }): the children of current, in list order
ChildrenOf(commits, current, visited) ==
  LET kids == SelectSeq(commits, LAMBDA c :
                Includes(ParentsOf(c.parent), current) /\ Unvisited(visited, c.commit))
  IN [ i \in 1..Len(kids) |-> kids[i].commit ]

\* breadth-first walk along child edges; visited is the set of ids reached
RECURSIVE ChildTrace(_, _, _, _)
ChildTrace(commits, queue, visited, fuel) ==
  IF queue = << >> THEN [hung |-> FALSE, visited |-> visited]
  ELSE IF fuel = 0 THEN [hung |-> TRUE, visited |-> visited]
  ELSE With(ChildrenOf(commits, Head(queue), visited), LAMBDA kids :
              ChildTrace(commits, Tail(queue) \o kids, visited \cup Range(kids),
                         fuel - 1))

\* ------------------------------------------------------------------------
\* buildTreeStructure: branch-descendant marking
\* ------------------------------------------------------------------------
\* branchRefs.length > 0 && !branchRefs.includes(mainBranch || '') &&
\* !branchRefs.includes('master')
IsBranchTip(commit, mainBranch) ==
  With(parseBranchRefs(commit.refs), LAMBDA branchRefs :
    /\ Len(branchRefs) > 0
    /\ ~Includes(branchRefs, MainOrEmpty(mainBranch))
    /\ ~Includes(branchRefs, "master"))

\* first pass: the commits that carry a non-main ref
FirstPass(commits, mainBranch) ==
  { commits[i].commit : i \in { j \in DOMAIN commits : IsBranchTip(commits[j], mainBranch) } }

\* second pass: from every such commit, forward to all its descendants
SecondPass(commits, mainBranch, marked) ==
  FoldLeft(LAMBDA acc, c :
             IF ~IsBranchTip(c, mainBranch) THEN acc
             ELSE With(ChildTrace(commits, <<c.commit>>, {c.commit}, Fuel(commits)),
                       LAMBDA t : [hung |-> acc.hung \/ t.hung,
                                   bd |-> acc.bd \cup (t.visited \ {c.commit})]),
           [hung |-> FALSE, bd |-> marked], commits)

\* the ancestors of the main tip (mainLineAncestors)
MainLineAncestors(commits, nodes, mainTip) ==
  ParentTrace(nodes, <<mainTip>>, {mainTip}, LAMBDA p : HasNode(nodes, p), Fuel(commits))

\* backward from a branch tip, stopping at the ancestors of the main tip
BackwardMark(commits, nodes, tip, mla) ==
  ParentTrace(nodes, <<tip>>, {tip},
              LAMBDA p : HasNode(nodes, p) /\ p \notin mla, Fuel(commits))

\* one round of the additional pass: parents of marked commits, then
\* commits that have a marked child
AdditionalRound(commits, nodes, mla, bd0) ==
  LET fwd == FoldLeft(LAMBDA acc, c :
               IF c.commit \notin acc.bd THEN acc
               ELSE FoldLeft(LAMBDA a, p :
                      IF HasNode(nodes, p) /\ p \notin a.bd /\ p \notin mla
                      THEN [bd |-> a.bd \cup {p}, foundMore |-> TRUE] ELSE a,
                    acc, ParentsOf(c.parent)),
               [bd |-> bd0, foundMore |-> FALSE], commits)
  IN FoldLeft(LAMBDA acc, c :
       IF /\ c.commit \notin acc.bd
          /\ c.commit \notin mla
          /\ \E i \in DOMAIN commits :
                /\ Includes(ParentsOf(commits[i].parent), c.commit)
                /\ commits[i].commit \in acc.bd
       THEN [bd |-> acc.bd \cup {c.commit}, foundMore |-> TRUE] ELSE acc,
       fwd, commits)

\* while (foundMore && iteration < 10)
RECURSIVE AdditionalPass(_, _, _, _, _)
AdditionalPass(commits, nodes, mla, bd, iteration) ==
  IF iteration >= AdditionalPassLimit THEN bd
  ELSE With(AdditionalRound(commits, nodes, mla, bd), LAMBDA r :
              IF r.foundMore
              THEN AdditionalPass(commits, nodes, mla, r.bd, iteration + 1)
              ELSE r.bd)

\* leadsToBranchTip: is branchTip reached from commitHash along child edges
RECURSIVE LeadsToBranchTip(_, _, _, _, _)
LeadsToBranchTip(commits, branchTip, queue, visited, fuel) ==
  IF queue = << >> THEN [hung |-> FALSE, found |-> FALSE]
  ELSE IF Head(queue) = branchTip THEN [hung |-> FALSE, found |-> TRUE]
  ELSE IF fuel = 0 THEN [hung |-> TRUE, found |-> FALSE]
  ELSE With(ChildrenOf(commits, Head(queue), visited), LAMBDA kids :
              LeadsToBranchTip(commits, branchTip, Tail(queue) \o kids,
                               visited \cup Range(kids), fuel - 1))

\* one round of the final pass (only for the branch named feature-branch)
FinalRound(commits, mla, branchTip, st) ==
  FoldLeft(LAMBDA acc, c :
    IF c.commit \in acc.bd \/ c.commit \in mla THEN acc
    ELSE With({ i \in DOMAIN commits :
                  Includes(ParentsOf(commits[i].parent), c.commit) }, LAMBDA kids :
         With([ i \in { k \in kids : commits[k].commit \notin acc.bd } |->
                  LeadsToBranchTip(commits, branchTip, <<commits[i].commit>>,
                                   {commits[i].commit}, Fuel(commits)) ], LAMBDA leads :
         With(acc.hung \/ \E i \in DOMAIN leads : leads[i].hung, LAMBDA nowHung :
           IF \/ \E i \in kids : commits[i].commit \in acc.bd
              \/ \E i \in DOMAIN leads : leads[i].found
           THEN [hung |-> nowHung, bd |-> acc.bd \cup {c.commit}, foundMore |-> TRUE]
           ELSE [acc EXCEPT !.hung = nowHung]))),
    [hung |-> st.hung, bd |-> st.bd, foundMore |-> FALSE], commits)

\* while (foundMore && finalPassIteration < 20)
RECURSIVE FinalPass(_, _, _, _, _)
FinalPass(commits, mla, branchTip, st, iteration) ==
  IF iteration >= FinalPassLimit THEN st
  ELSE With(FinalRound(commits, mla, branchTip, st), LAMBDA r :
              IF r.foundMore /\ ~r.hung
              THEN FinalPass(commits, mla, branchTip,
                             [hung |-> r.hung, bd |-> r.bd], iteration + 1)
              ELSE [hung |-> r.hung, bd |-> r.bd])

\* third pass, for one commit of the list
ThirdPassFor(commits, nodes, mainBranch, c, st) ==
  IF ~IsBranchTip(c, mainBranch) THEN st
  ELSE With(MainTipIndex(commits, mainBranch), LAMBDA tipIdx :
    IF tipIdx = 0 THEN st
    ELSE With(MainLineAncestors(commits, nodes, commits[tipIdx].commit), LAMBDA anc :
         With(BackwardMark(commits, nodes, c.commit, anc.visited), LAMBDA back :
         With(AdditionalPass(commits, nodes, anc.visited,
                             st.bd \cup (back.visited \ {c.commit}), 0), LAMBDA bd2 :
           IF st.hung \/ anc.hung \/ back.hung THEN [hung |-> TRUE, bd |-> bd2]
           ELSE IF Includes(parseBranchRefs(c.refs), "feature-branch")
           \* branchPathCommits is the set reached by the same walk
           THEN FinalPass(commits, anc.visited, c.commit,
                          [hung |-> FALSE,
                           bd |-> bd2 \cup { h \in back.visited : h \notin anc.visited }],
                          0)
           ELSE [hung |-> FALSE, bd |-> bd2]))))

\* the set branchDescendants after the three passes
MarkBranchDescendants(commits, nodes, mainBranch) ==
  With(SecondPass(commits, mainBranch, FirstPass(commits, mainBranch)), LAMBDA second :
    IF second.hung THEN second
    ELSE FoldLeft(LAMBDA acc, c :
                    IF acc.hung THEN acc
                    ELSE ThirdPassFor(commits, nodes, mainBranch, c, acc),
                  second, commits))


\* ------------------------------------------------------------------------
\* buildTreeStructure: main line
\* ------------------------------------------------------------------------
\* parentBranchRefs.some(branch => branch !== mainBranch && branch !== 'master')
HasNonMainBranch(node, mainBranch) ==
  \E i \in DOMAIN node.branchRefs :
     node.branchRefs[i] # mainBranch /\ node.branchRefs[i] # "master"

\* a main line that takes every ancestor of the main tip
MarkMainLineAll(commits, nodes, mainBranch, bd) ==
  IF mainBranch = Null THEN [hung |-> FALSE, visited |-> {}]
  ELSE With(MainTipIndex(commits, mainBranch), LAMBDA tipIdx :
         IF tipIdx = 0 THEN [hung |-> FALSE, visited |-> {}]
         ELSE ParentTrace(nodes, <<commits[tipIdx].commit>>, {commits[tipIdx].commit},
                          LAMBDA p : HasNode(nodes, p), Fuel(commits)))

\* the set mainLineCommits: backward from the main tip, never into a commit
\* that carries another branch or is marked branch-descendant
MarkMainLine(commits, nodes, mainBranch, bd) ==
  IF mainBranch = Null THEN [hung |-> FALSE, visited |-> {}]
  ELSE With(MainTipIndex(commits, mainBranch), LAMBDA tipIdx :
         IF tipIdx = 0 THEN [hung |-> FALSE, visited |-> {}]
         ELSE ParentTrace(nodes, <<commits[tipIdx].commit>>, {commits[tipIdx].commit},
                          LAMBDA p : /\ HasNode(nodes, p)
                                     /\ ~HasNonMainBranch(nodes[p], mainBranch)
                                     /\ p \notin bd,
                          Fuel(commits)))

\* ------------------------------------------------------------------------
\* buildTreeStructure: lanes
\* The working state st is [nodes, branchColors, commitToLane,
\* commitToBranch, nextLane, hung]; branchColors is the Map in insertion
\* order, commitToLane and commitToBranch are functions on the ids set.
\* ------------------------------------------------------------------------
\* branchColors.has(name)
HasColor(branchColors, name) ==
  \E i \in DOMAIN branchColors : branchColors[i].branch = name

\* branchColors.get(name), for a name that has an entry
GetColor(branchColors, name) ==
  branchColors[CHOOSE i \in DOMAIN branchColors : branchColors[i].branch = name]

\* commitToLane.set / commitToBranch.set / node.lane = / node.isOnMainLine =
SetLane(st, id, lane, branch, onMain) ==
  [st EXCEPT !.commitToLane = (id :> lane) @@ @,
             !.commitToBranch = IF branch = Null THEN @ ELSE (id :> branch) @@ @,
             !.nodes[id].lane = lane,
             !.nodes[id].isOnMainLine = onMain]

\* a colour index that does not skip the colour of the main line
ColorIndexNoSkip(size) == size % Len(BRANCH_COLORS)

\* (branchColors.size % (BRANCH_COLORS.length - 1)) + 1
ColorIndex(size) == (size % (Len(BRANCH_COLORS) - 1)) + 1

\* an entry is set for every tip, whether or not the name has one
EnsureColorAlways(st, name) ==
  [st EXCEPT !.branchColors =
                Append(@, [branch |-> name,
                           color |-> Palette(ColorIndex(Len(@))),
                           lane |-> st.nextLane]),
             !.nextLane = @ + 1]

\* branchColors.set(name, {branch, color, lane: nextLane++}) unless present
EnsureColor(st, name) ==
  IF HasColor(st.branchColors, name) THEN st
  ELSE [st EXCEPT !.branchColors =
                     Append(@, [branch |-> name,
                                color |-> Palette(ColorIndex(Len(@))),
                                lane |-> st.nextLane]),
                  !.nextLane = @ + 1]

\* the body of commitsReversed.forEach: lane of a commit that carries refs
AssignTip(st, commit, mainBranch) ==
  With(parseBranchRefs(commit.refs), LAMBDA branchRefs :
    IF Len(branchRefs) = 0 THEN st
    ELSE With(branchRefs[1], LAMBDA primaryBranch :
      IF primaryBranch = mainBranch
      THEN SetLane(st, commit.commit, 0, primaryBranch, TRUE)
      ELSE With(EnsureColor(st, primaryBranch), LAMBDA st1 :
             SetLane(st1, commit.commit,
                     GetColor(st1.branchColors, primaryBranch).lane,
                     primaryBranch, FALSE))))

\* a tip assignment that walks the list as given, newest commit first
AssignTipsNewestFirst(commits, st, mainBranch) ==
  FoldLeft(LAMBDA acc, c : AssignTip(acc, c, mainBranch), st, commits)

\* "Assign lanes to branch tips": the reversed list, oldest commit first
AssignTips(commits, st, mainBranch) ==
  FoldLeft(LAMBDA acc, c : AssignTip(acc, c, mainBranch), st, Reverse(commits))

RECURSIVE ColorMapMainBranch(_, _)
\* "Identify main branch first" of createBranchColorMap: the first commit
\* from index i on whose names include main or master decides
ColorMapMainBranch(commits, i) ==
  IF i > Len(commits) THEN Null
  ELSE With(parseBranchRefsColors(commits[i].refs), LAMBDA branchRefs :
         IF Includes(branchRefs, "main") THEN "main"
         ELSE IF Includes(branchRefs, "master") THEN "master"
         ELSE ColorMapMainBranch(commits, i + 1))

\* the body of commitsReversed.forEach in createBranchColorMap;
\* branchColorMap is the list of its entries [branch, color] as inserted
ColorMapStep(branchColorMap, commit, mainBranch) ==
  With(parseBranchRefsColors(commit.refs), LAMBDA branchRefs :
    IF Len(branchRefs) = 0 THEN branchColorMap
    ELSE With(branchRefs[1], LAMBDA primaryBranch :
      IF HasColor(branchColorMap, primaryBranch) THEN branchColorMap
      ELSE IF primaryBranch = mainBranch
           THEN Append(branchColorMap,
                       [branch |-> primaryBranch, color |-> Palette(0)])
           ELSE Append(branchColorMap,
                       [branch |-> primaryBranch,
                        color |-> Palette(ColorIndex(Len(branchColorMap)))])))

\* createBranchColorMap(commits) of branch-colors.ts
createBranchColorMap(commits) ==
  With(ColorMapMainBranch(commits, 1), LAMBDA mainBranch :
    FoldLeft(LAMBDA acc, c : ColorMapStep(acc, c, mainBranch),
             << >>, Reverse(commits)))

\* the trace back of the propagation: the first commit with a lane, walking
\* breadth-first along parent ids; found is foundLane !== null
RECURSIVE TraceBack(_, _, _, _)
TraceBack(st, queue, visited, fuel) ==
  IF queue = << >> THEN [hung |-> FALSE, found |-> FALSE, lane |-> 0, branch |-> Null]
  ELSE IF fuel = 0 THEN [hung |-> TRUE, found |-> FALSE, lane |-> 0, branch |-> Null]
  ELSE With(Head(queue), LAMBDA current :
         IF ~HasNode(st.nodes, current)
         THEN TraceBack(st, Tail(queue), visited, fuel - 1)
         ELSE IF current \in DOMAIN st.commitToLane
         THEN [hung |-> FALSE, found |-> TRUE, lane |-> st.commitToLane[current],
               branch |-> IF current \in DOMAIN st.commitToBranch
                          THEN st.commitToBranch[current] ELSE Null]
         ELSE With(PushParents(ParentsOf(st.nodes[current].parent), visited,
                               LAMBDA p : HasNode(st.nodes, p)), LAMBDA step :
                TraceBack(st, Tail(queue) \o step.queue, step.visited, fuel - 1)))

\* a propagation without the default to the main line
PropagateNoDefault(st, commit, bd, mainLine, fuel) ==
  LET id == commit.commit
  IN IF id \in DOMAIN st.commitToLane THEN st
     ELSE IF id \in bd
     THEN IF Len(st.branchColors) > 0
          THEN SetLane(st, id, st.branchColors[1].lane, st.branchColors[1].branch, FALSE)
          ELSE st
     ELSE IF id \in mainLine
     THEN SetLane(st, id, 0, Null, TRUE)
     ELSE With(TraceBack(st, <<id>>, {id}, fuel), LAMBDA found :
            IF found.hung THEN [st EXCEPT !.hung = TRUE]
            ELSE IF found.found
            THEN SetLane(st, id, found.lane, found.branch, found.lane = 0)
            ELSE st)

\* the body of "Propagate lanes backwards through history" for one commit
Propagate(st, commit, bd, mainLine, fuel) ==
  LET id == commit.commit
  IN IF id \in DOMAIN st.commitToLane THEN st
     ELSE IF id \in bd
     THEN IF Len(st.branchColors) > 0
          THEN SetLane(st, id, st.branchColors[1].lane, st.branchColors[1].branch, FALSE)
          ELSE st
     ELSE IF id \in mainLine
     THEN SetLane(st, id, 0, Null, TRUE)
     ELSE With(TraceBack(st, <<id>>, {id}, fuel), LAMBDA found :
            IF found.hung THEN [st EXCEPT !.hung = TRUE]
            ELSE IF found.found
            THEN SetLane(st, id, found.lane, found.branch, found.lane = 0)
            ELSE SetLane(st, id, 0, Null, TRUE))

\* commits.forEach of the propagation, in list order
PropagateAll(commits, st, bd, mainLine) ==
  FoldLeft(LAMBDA acc, c :
             IF acc.hung THEN acc ELSE Propagate(acc, c, bd, mainLine, Fuel(commits)),
           st, commits)

\* a merge handling that moves the lane and leaves isOnMainLine alone
MergeCorrectionLaneOnly(st, commit, mainLine) ==
  LET parents == ParentsOf(commit.parent)
  IN IF Len(parents) > 1 /\ \E i \in DOMAIN parents : parents[i] \in mainLine
     THEN [st EXCEPT !.nodes[commit.commit].lane = 0,
                     !.commitToLane = (commit.commit :> 0) @@ @]
     ELSE st

\* a merge handling that looks at the first parent only
MergeCorrectionFirstParent(st, commit, mainLine) ==
  LET parents == ParentsOf(commit.parent)
  IN IF Len(parents) > 1 /\ parents[1] \in mainLine
     THEN [st EXCEPT !.nodes[commit.commit].lane = 0,
                     !.nodes[commit.commit].isOnMainLine = TRUE,
                     !.commitToLane = (commit.commit :> 0) @@ @]
     ELSE st

\* "Handle merges": a commit with more than one parent and a parent in
\* mainLineCommits goes to lane 0
MergeCorrection(st, commit, mainLine) ==
  LET parents == ParentsOf(commit.parent)
  IN IF Len(parents) > 1 /\ \E i \in DOMAIN parents : parents[i] \in mainLine
     THEN [st EXCEPT !.nodes[commit.commit].lane = 0,
                     !.nodes[commit.commit].isOnMainLine = TRUE,
                     !.commitToLane = (commit.commit :> 0) @@ @]
     ELSE st

\* commits.forEach of the merge handling
MergeAll(commits, st, mainLine) ==
  FoldLeft(LAMBDA acc, c : MergeCorrection(acc, c, mainLine), st, commits)

\* the working state after "Create nodes"
InitialLanes(commits) ==
  [ nodes |-> CreateNodes(commits),
    branchColors |-> << >>,
    commitToLane |-> << >>,
    commitToBranch |-> << >>,
    nextLane |-> 1,
    hung |-> FALSE ]

\* buildTreeStructure(commits): {nodes, branchColors, mainLineCommits,
\* mainBranch}, and hung when one of its loops does not end
buildTreeStructure(commits) ==
  With(InitialLanes(commits), LAMBDA st0 :
  With(DetectMainBranch(commits, 1), LAMBDA mb :
  With(MarkBranchDescendants(commits, st0.nodes, mb), LAMBDA marks :
  With(MarkMainLine(commits, st0.nodes, mb, marks.bd), LAMBDA main :
  With(PropagateAll(commits, AssignTips(commits, st0, mb), marks.bd, main.visited),
       LAMBDA st2 :
  With(MergeAll(commits, st2, main.visited), LAMBDA st3 :
    IF marks.hung \/ main.hung \/ st2.hung
    THEN [hung |-> TRUE, nodes |-> st0.nodes, branchColors |-> << >>,
          mainLineCommits |-> {}, mainBranch |-> mb, branchDescendants |-> {}]
    ELSE [hung |-> FALSE, nodes |-> st3.nodes, branchColors |-> st3.branchColors,
          mainLineCommits |-> main.visited, mainBranch |-> mb,
          branchDescendants |-> marks.bd]))))))


\* ------------------------------------------------------------------------
\* GitTree: positions and paths
\* A path is [kind, from, to, branch, color]; from and to are entries of
\* commitPositions; kind names the statement that pushes the path:
\* "direct", "divergence" or "mergeback".
\* ------------------------------------------------------------------------
\* Lengths and coordinates are counted in half pixels, so that the dot
\* radius of 3.5 pixels is a whole number.
\* const laneWidth = 16
laneWidth == 32

\* const dotRadius = 3.5
dotRadius == 7

\* const cornerRadius = 8
cornerRadius == 16

\* the row height 40 of the fallback headerHeight + index * 40 + 20
defaultRowHeight == 80

\* the prop width (80 pixels)
width == 160

\* const mainLineX = centerX = width / 2
mainLineX == width \div 2

\* commitPositions[-1]: the position of a commit that is not in the list
Undefined ==
  [commit |-> Null, x |-> 0, y |-> 0, lane |-> 0, index |-> 0 - 1,
   isOnMainLine |-> FALSE]

\* rowPositions[index] ?? (headerHeight + index * 40 + 20), index 0-based
RowY(rows, header, index) ==
  IF index + 1 \in DOMAIN rows THEN rows[index + 1]
  ELSE header + index * defaultRowHeight + defaultRowHeight \div 2

\* isOnMainLine ? mainLineX : mainLineX + (lane > 0 ? laneWidth : -laneWidth) * lane
LaneX(lane, isOnMainLine) ==
  IF isOnMainLine THEN mainLineX
  ELSE mainLineX + (IF lane > 0 THEN laneWidth ELSE 0 - laneWidth) * lane

\* the memo commitPositions
CommitPositions(commits, nodes, rows, header) ==
  [ i \in 1..Len(commits) |->
      IF HasNode(nodes, commits[i].commit)
      THEN [commit |-> commits[i].commit,
            x |-> LaneX(nodes[commits[i].commit].lane,
                        nodes[commits[i].commit].isOnMainLine),
            y |-> RowY(rows, header, i - 1),
            lane |-> nodes[commits[i].commit].lane,
            index |-> i - 1,
            isOnMainLine |-> nodes[commits[i].commit].isOnMainLine]
      ELSE [commit |-> commits[i].commit, x |-> mainLineX,
            y |-> RowY(rows, header, i - 1), lane |-> 0, index |-> i - 1,
            isOnMainLine |-> TRUE] ]

\* commitPositions[index] for the result of findIndex
PositionAt(positions, index) ==
  IF index \in DOMAIN positions THEN positions[index] ELSE Undefined

\* the first branch of branchColors on the given lane, '' when none
BranchOfLane(branchColors, lane) ==
  LET hits == { i \in DOMAIN branchColors : branchColors[i].lane = lane }
  IN IF hits = {} THEN ""
     ELSE branchColors[CHOOSE i \in hits : \A j \in hits : i <= j].branch

\* branchColors.get(branch)?.color || '#3b82f6'
ColorOrMain(branchColors, branch) ==
  IF HasColor(branchColors, branch) THEN GetColor(branchColors, branch).color
  ELSE Palette(0)

\* a direct connection that is pushed for every parent of the list,
\* whatever its lane
DirectEdgeAnyLane(commits, nodes, branchColors, positions, index, parentHash) ==
  With(FindIndex(commits, parentHash), LAMBDA parentIndex :
    IF parentIndex = 0 \/ ~HasNode(nodes, parentHash) THEN << >>
    ELSE << [kind |-> "direct",
             from |-> PositionAt(positions, index),
             to |-> PositionAt(positions, parentIndex),
             branch |-> "",
             color |-> Palette(0)] >>)

\* the body of parents.forEach of the direct connections: the paths pushed
\* for commit number index and one of its parent ids
DirectEdge(commits, nodes, branchColors, positions, index, parentHash) ==
  With(FindIndex(commits, parentHash), LAMBDA parentIndex :
    IF parentIndex = 0 \/ ~HasNode(nodes, parentHash) THEN << >>
    ELSE With(nodes[commits[index].commit], LAMBDA node :
         With(nodes[parentHash], LAMBDA parentNode :
           IF node.lane = parentNode.lane /\ node.isOnMainLine = parentNode.isOnMainLine
           THEN With(IF Len(node.branchRefs) > 0 THEN node.branchRefs[1]
                     ELSE IF Len(parentNode.branchRefs) > 0
                          THEN parentNode.branchRefs[1] ELSE "", LAMBDA own :
                With(IF own # "" THEN own ELSE BranchOfLane(branchColors, node.lane),
                     LAMBDA branch :
                  << [kind |-> "direct",
                      from |-> PositionAt(positions, index),
                      to |-> PositionAt(positions, parentIndex),
                      branch |-> branch,
                      color |-> ColorOrMain(branchColors, branch)] >>))
           ELSE << >>)))

\* commits.forEach of the direct connections
DirectEdges(commits, nodes, branchColors, positions) ==
  FoldLeft(LAMBDA acc, i :
             IF ~HasNode(nodes, commits[i].commit) THEN acc
             ELSE FoldLeft(LAMBDA a, p :
                             a \o DirectEdge(commits, nodes, branchColors, positions, i, p),
                           acc, ParentsOf(commits[i].parent)),
           << >>, [ i \in 1..Len(commits) |-> i ])

\* the loop over the parents of one dequeued commit in findCommonAncestor;
\* ret is the parent returned, Null when the loop ends without a return
ScanParents(parents, visited, mainLine, Known(_)) ==
  FoldLeft(LAMBDA acc, p :
             IF acc.ret # Null \/ ~Unvisited(acc.visited, p) THEN acc
             ELSE IF p \in mainLine
             THEN [acc EXCEPT !.visited = @ \cup {p}, !.ret = p]
             ELSE IF Known(p)
             THEN [acc EXCEPT !.visited = @ \cup {p}, !.queue = Append(@, p)]
             ELSE [acc EXCEPT !.visited = @ \cup {p}],
           [visited |-> visited, queue |-> << >>, ret |-> Null], parents)

\* findCommonAncestor: the first main-line commit met walking breadth-first
\* along parent ids from the branch tip; hash is Null when there is none
RECURSIVE findCommonAncestor(_, _, _, _, _, _)
findCommonAncestor(commits, nodes, mainLine, queue, visited, fuel) ==
  IF queue = << >> THEN [hung |-> FALSE, hash |-> Null]
  ELSE IF fuel = 0 THEN [hung |-> TRUE, hash |-> Null]
  ELSE With(Head(queue), LAMBDA current :
       With(FindIndex(commits, current), LAMBDA inList :
         IF current \in mainLine THEN [hung |-> FALSE, hash |-> current]
         ELSE IF ~HasNode(nodes, current) /\ inList = 0
         THEN findCommonAncestor(commits, nodes, mainLine, Tail(queue), visited, fuel - 1)
         ELSE With(IF HasNode(nodes, current)
                   THEN ScanParents(ParentsOf(nodes[current].parent), visited, mainLine,
                                    LAMBDA p : HasNode(nodes, p) \/ FindIndex(commits, p) # 0)
                   ELSE ScanParents(ParentsOf(commits[inList].parent), visited, mainLine,
                                    LAMBDA p : FindIndex(commits, p) # 0),
                   LAMBDA scan :
                IF scan.ret # Null THEN [hung |-> FALSE, hash |-> scan.ret]
                ELSE findCommonAncestor(commits, nodes, mainLine,
                                        Tail(queue) \o scan.queue, scan.visited,
                                        fuel - 1))))

\* the Map branchTips: for every primary branch name the topmost commit
\* that carries it, in order of first occurrence
BranchTips(commits) ==
  FoldLeft(LAMBDA acc, i :
             With(parseBranchRefs(commits[i].refs), LAMBDA branchRefs :
               IF Len(branchRefs) > 0
                  /\ ~\E k \in DOMAIN acc : acc[k].branch = branchRefs[1]
               THEN Append(acc, [branch |-> branchRefs[1], index |-> i])
               ELSE acc),
           << >>, [ i \in 1..Len(commits) |-> i ])

\* a search for the merge commit that looks at the first parent only
MergeCommitIndexFirstParent(commits, nodes, branchTipHash) ==
  LET hits == { i \in DOMAIN commits :
                  /\ HasNode(nodes, commits[i].commit)
                  /\ nodes[commits[i].commit].isOnMainLine
                  /\ Len(ParentsOf(commits[i].parent)) > 0
                  /\ ParentsOf(commits[i].parent)[1] = branchTipHash }
  IN IF hits = {} THEN 0 ELSE CHOOSE i \in hits : \A j \in hits : i <= j

\* the merge commit of a branch: the first main-line commit of the list
\* that has the branch tip among its parents; 0 when there is none
MergeCommitIndex(commits, nodes, branchTipHash) ==
  LET hits == { i \in DOMAIN commits :
                  /\ HasNode(nodes, commits[i].commit)
                  /\ nodes[commits[i].commit].isOnMainLine
                  /\ Includes(ParentsOf(commits[i].parent), branchTipHash) }
  IN IF hits = {} THEN 0 ELSE CHOOSE i \in hits : \A j \in hits : i <= j

\* the segments of one branch that is not the main branch: the divergence
\* segment from the common ancestor to the tip, and the merge-back segment
SegmentsOfBranch(commits, tree, positions, tip) ==
  With(commits[tip.index].commit, LAMBDA branchTipHash :
    IF ~HasNode(tree.nodes, branchTipHash) THEN [hung |-> FALSE, paths |-> << >>]
    ELSE With(findCommonAncestor(commits, tree.nodes, tree.mainLineCommits,
                                 <<branchTipHash>>, {branchTipHash}, Fuel(commits)),
              LAMBDA anc :
         With(FindIndex(commits, anc.hash), LAMBDA commonAncestorIndex :
         With(ColorOrMain(tree.branchColors, tip.branch), LAMBDA color :
         With(MergeCommitIndex(commits, tree.nodes, branchTipHash), LAMBDA mergeIndex :
         With([kind |-> "divergence",
               from |-> PositionAt(positions, commonAncestorIndex),
               to |-> PositionAt(positions, tip.index),
               branch |-> tip.branch, color |-> color], LAMBDA divergence :
           IF anc.hung THEN [hung |-> TRUE, paths |-> << >>]
           ELSE IF anc.hash = Null \/ commonAncestorIndex = 0
           THEN [hung |-> FALSE, paths |-> << >>]
           ELSE IF mergeIndex = 0 THEN [hung |-> FALSE, paths |-> <<divergence>>]
           ELSE [hung |-> FALSE,
                 paths |-> <<divergence,
                             [kind |-> "mergeback",
                              from |-> PositionAt(positions, tip.index),
                              to |-> PositionAt(positions, mergeIndex),
                              branch |-> tip.branch, color |-> color]>>]))))))

\* a loop over the branch tips that does not skip the main branch
BranchSegmentsNoSkip(commits, tree, positions, tip) ==
  SegmentsOfBranch(commits, tree, positions, tip)

\* the body of branchTips.forEach: nothing for the main branch and for
\* master, the segments of the branch otherwise
BranchSegments(commits, tree, positions, tip) ==
  IF tip.branch = tree.mainBranch \/ tip.branch = "master"
  THEN [hung |-> FALSE, paths |-> << >>]
  ELSE SegmentsOfBranch(commits, tree, positions, tip)

\* the memo paths of GitTree
BuildPaths(commits, tree, positions) ==
  FoldLeft(LAMBDA acc, tip :
             IF acc.hung THEN acc
             ELSE With(BranchSegments(commits, tree, positions, tip), LAMBDA seg :
                    [hung |-> seg.hung, paths |-> acc.paths \o seg.paths]),
           [hung |-> FALSE,
            paths |-> DirectEdges(commits, tree.nodes, tree.branchColors, positions)],
           BranchTips(commits))


\* the fill colour of the dot of a commit ("Draw commit dots")
DotColor(nodes, branchColors, id) ==
  IF HasNode(nodes, id) /\ ~nodes[id].isOnMainLine /\ nodes[id].lane > 0
  THEN LET hits == { i \in DOMAIN branchColors : branchColors[i].lane = nodes[id].lane }
       IN IF hits = {} THEN Palette(0)
          ELSE branchColors[CHOOSE i \in hits : \A j \in hits : i <= j].color
  ELSE IF HasNode(nodes, id) /\ Len(nodes[id].branchRefs) > 0
  THEN ColorOrMain(branchColors, nodes[id].branchRefs[1])
  ELSE Palette(0)

\* ------------------------------------------------------------------------
\* GitTree: the drawing
\* ------------------------------------------------------------------------
\* the y of the main-line commits (firstMainLineY and lastMainLineY are the
\* least and the greatest of them)
MainLineYs(nodes, positions) ==
  { positions[i].y : i \in { j \in DOMAIN positions :
                               /\ HasNode(nodes, positions[j].commit)
                               /\ nodes[positions[j].commit].isOnMainLine } }

\* a main axis drawn as one line between each two neighbouring main-line
\* commits
MainSpineSegments(commits, nodes, positions) ==
  With(MainLineYs(nodes, positions), LAMBDA ys :
    [ k \in 1..(Cardinality(ys) - 1) |->
        [x1 |-> mainLineX, y1 |-> 0, x2 |-> mainLineX, y2 |-> 0,
         color |-> Palette(0)] ])

\* a main axis drawn from the first row to the last row of the list
MainSpineAllRows(commits, nodes, positions) ==
  IF Len(commits) > 1
  THEN << [x1 |-> mainLineX, y1 |-> positions[1].y,
           x2 |-> mainLineX, y2 |-> positions[Len(positions)].y,
           color |-> Palette(0)] >>
  ELSE << >>

\* "Draw main vertical line": the lines drawn for the main axis
MainSpine(commits, nodes, positions) ==
  With(MainLineYs(nodes, positions), LAMBDA ys :
    IF Len(commits) > 1 /\ ys # {}
    THEN << [x1 |-> mainLineX,
             y1 |-> CHOOSE y \in ys : \A z \in ys : y <= z,
             x2 |-> mainLineX,
             y2 |-> CHOOSE y \in ys : \A z \in ys : y >= z,
             color |-> Palette(0)] >>
    ELSE << >>)

\* Math.min(cornerRadius, dotRadius)
Min(a, b) == IF a <= b THEN a ELSE b

\* the shape of a path whose vertical run ends below the centre of the
\* target dot when it goes down and above it when it goes up
PathShapeBySide(path) ==
  IF path.from.lane # path.to.lane \/ path.from.isOnMainLine # path.to.isOnMainLine
  THEN With(path.to.x > path.from.x, LAMBDA goingRight :
       With(path.to.y > path.from.y, LAMBDA goingDown :
         [shape |-> "corner",
          mx |-> path.from.x, my |-> path.from.y,
          hx |-> IF goingRight THEN path.to.x - cornerRadius
                 ELSE path.to.x + cornerRadius,
          hy |-> path.from.y,
          r |-> cornerRadius,
          sweep |-> IF (goingRight /\ goingDown) \/ (~goingRight /\ ~goingDown)
                    THEN 1 ELSE 0,
          cx |-> path.to.x,
          vy |-> IF goingDown THEN path.from.y + cornerRadius
                 ELSE path.from.y - cornerRadius,
          ex |-> path.to.x,
          ey |-> IF goingDown THEN path.to.y + dotRadius ELSE path.to.y - dotRadius,
          color |-> path.color]))
  ELSE [shape |-> "line", x1 |-> path.from.x, y1 |-> path.from.y,
        x2 |-> path.to.x, y2 |-> path.to.y, color |-> path.color]

\* "Draw connections": the shape drawn for one path.  A cornered shape is
\* the path data  M from.x startY  L hx startY  A r r 0 0 sweep cx vy
\* L to.x targetY;  a straight shape is a line.
PathShape(path) ==
  IF path.from.lane # path.to.lane \/ path.from.isOnMainLine # path.to.isOnMainLine
  THEN With(path.to.x > path.from.x, LAMBDA goingRight :
       With(path.to.y > path.from.y, LAMBDA goingDown :
       With(IF goingDown THEN cornerRadius ELSE Min(cornerRadius, dotRadius),
            LAMBDA effectiveCornerRadius :
         [shape |-> "corner",
          mx |-> path.from.x, my |-> path.from.y,
          hx |-> IF goingRight THEN path.to.x - effectiveCornerRadius
                 ELSE path.to.x + effectiveCornerRadius,
          hy |-> path.from.y,
          r |-> effectiveCornerRadius,
          sweep |-> IF (goingRight /\ goingDown) \/ (~goingRight /\ ~goingDown)
                    THEN 1 ELSE 0,
          cx |-> path.to.x,
          vy |-> IF goingDown THEN path.from.y + cornerRadius
                 ELSE path.from.y - dotRadius,
          ex |-> path.to.x, ey |-> path.to.y + dotRadius,
          color |-> path.color])))
  ELSE [shape |-> "line", x1 |-> path.from.x, y1 |-> path.from.y,
        x2 |-> path.to.x, y2 |-> path.to.y, color |-> path.color]

\* "Draw commit dots": the circle of row idx (1-based)
Dot(commits, nodes, branchColors, positions, idx) ==
  [commit |-> commits[idx].commit,
   cx |-> positions[idx].x, cy |-> positions[idx].y, r |-> dotRadius,
   fill |-> DotColor(nodes, branchColors, commits[idx].commit)]

\* what GitTree returns when it returns the placeholder div
NoSvg == [rendered |-> FALSE, spine |-> << >>, shapes |-> << >>, dots |-> << >>]

\* what GitTree returns: the placeholder, or the svg with the main axis,
\* the connections and the dots
Draw(commits, tree, rows, positions, pathArray) ==
  IF ~tree.built \/ Len(commits) = 0 \/ Len(rows) = 0 THEN NoSvg
  ELSE [rendered |-> TRUE,
        spine |-> MainSpine(commits, tree.nodes, positions),
        shapes |-> [ k \in 1..Len(pathArray) |-> PathShape(pathArray[k]) ],
        dots |-> [ i \in 1..Len(commits) |->
                     Dot(commits, tree.nodes, tree.branchColors, positions, i) ]]

\* ------------------------------------------------------------------------
\* Commit lists supplied by the commit source
\* ------------------------------------------------------------------------
Commit(id, parent, refs) == [commit |-> id, parent |-> parent, refs |-> refs]

Plain(name) == Ref(<<name>>, FALSE, << >>)

\* ids of the generic lists: row i carries IdPool[i]; an id beyond the
\* length of the list names a commit that is absent from it
IdPool == << "c1", "c2", "c3", "c4", "c5", "c6", "c7", "c8", "c9" >>

\* parent text of row i: none, or the next row
RegularParents(i) ==
  << <<"">>, <<IdPool[i + 1]>> >>

\* parent text of row i: the row after the next (a fork), itself, the row
\* above (a cycle with a regular parent), two parents in either order
ComplexParents(i) ==
  << <<IdPool[i + 2]>>,
     <<IdPool[i]>>,
     <<IdPool[IF i > 1 THEN i - 1 ELSE i + 3]>>,
     <<IdPool[i + 1], IdPool[i + 2]>>,
     <<IdPool[i + 2], IdPool[i + 1]>> >>

\* ref text of a labelled row:
\*   "HEAD -> main" | "master" | "feature-branch"
\*   | "origin/dev, origin/HEAD" | "main, dev"
RefTexts ==
  << << Ref(<<"HEAD">>, TRUE, <<"main">>) >>,
     << Plain("master") >>,
     << Plain("feature-branch") >>,
     << Ref(<<"origin", "dev">>, FALSE, << >>), Ref(<<"origin", "HEAD">>, FALSE, << >>) >>,
     << Plain("main"), Plain("dev") >> >>

\* the generic list of n rows: the rows in cplx (at most one row of a list)
\* have a complex parent text,
\* rows in DOMAIN refs carry ref text
GenericList(n, cplx, reg, refs) ==
  [ i \in 1..n |->
      Commit(IdPool[i],
             IF i \in DOMAIN cplx THEN ComplexParents(i)[cplx[i]]
             ELSE RegularParents(i)[reg[i]],
             IF i \in DOMAIN refs THEN RefTexts[refs[i]] ELSE << >>) ]

\* the simple-branch list and the merge list of the scenarios
SimpleBranchList ==
  << Commit("C3", <<"C2">>, <<Plain("feature")>>),
     Commit("C2", <<"C1">>, << >>),
     Commit("C1", <<"M1">>, <<Plain("main")>>),
     Commit("M1", <<"">>, << >>) >>

MergeList ==
  << Commit("M0", <<"M1", "C3">>, <<Plain("main")>>) >> \o SimpleBranchList

\* a single parent chain of n commits on the main branch: the newest commit
\* carries the main ref, the oldest has no parent
MainChain(n) ==
  [ i \in 1..n |->
      Commit(IdPool[i],
             IF i < n THEN <<IdPool[i + 1]>> ELSE <<"">>,
             IF i = 1 THEN <<Plain("main")>> ELSE << >>) ]

\* branch names and ids of the lists of branch tips
TipNames ==
  << "b01", "b02", "b03", "b04", "b05", "b06", "b07", "b08", "b09", "b10",
     "b11", "b12" >>

TipIds ==
  << "t01", "t02", "t03", "t04", "t05", "t06", "t07", "t08", "t09", "t10",
     "t11", "t12" >>

\* a list of n commits that all carry a branch ref: row i carries the name
\* TipNames[((i - 1) % p) + 1], row m (if any) carries "main" instead, the
\* newest row carries "topic" as a second name when pair holds; the rows
\* form one parent chain when chain holds and have no parent otherwise
TipList(n, p, m, chain, pair) ==
  [ i \in 1..n |->
      Commit(TipIds[i],
             IF chain /\ i < n THEN <<TipIds[i + 1]>> ELSE <<"">>,
             << Plain(IF i = m THEN "main" ELSE TipNames[((i - 1) % p) + 1]) >>
               \o (IF pair /\ i = 1 THEN << Plain("topic") >> ELSE << >>)) ]

TipLists ==
  UNION { { TipList(n, p, m, chain, pair) :
              p \in 1..n, m \in 0..n, chain \in BOOLEAN, pair \in BOOLEAN } :
          n \in 1..MaxTips }

\* row heights are measured in the table; the centre of row i (0-based) of
\* a table whose rows are all rowHeight high
MeasuredRows(n, header, rowHeight) ==
  [ i \in 1..n |-> header + (i - 1) * rowHeight + rowHeight \div 2 ]

\* the header height and the row height of the table (40 and 36 pixels)
measuredHeaderHeight == 80

measuredRowHeight == 72

\* ------------------------------------------------------------------------
\* The GitTree component as a state machine
\* ------------------------------------------------------------------------
VARIABLES
  allCommits,         \* the prop allCommits
  rowPositions,       \* the prop rowPositions
  headerHeight,       \* the prop headerHeight
  treeData,           \* the state treeData; built = FALSE stands for null
  branchDescendants,  \* the set branchDescendants of the last classification
  paths,              \* the memo paths
  svg,                \* what the last render returned
  before,             \* the branchColors of the list a commit was deleted from
  parsed,             \* the branch names that the call sites read from the refs
  branchColorMap,     \* the memo branchColorMap of the window
  window,             \* the state of GitWindow behind the drawer and the dialogs
  pc                  \* "effect": the tree effect is pending
                      \* "render": the paths memo is pending
                      \* "idle":   rendered
                      \* "hung":   a loop of the last step does not end

vars ==
  << allCommits, rowPositions, headerHeight, treeData, branchDescendants,
     paths, svg, before, parsed, branchColorMap, window, pc >>

\* the state of the window around the tree
windowVars == << parsed, branchColorMap, window >>

\* the closure of a call of handleProceed: stage "none" before the first
\* call, "closing" while the 1500 ms timer is pending, "opening" while the
\* 300 ms timer is pending, "fired" after it
NoTimer == [stage |-> "none", action |-> Null, hasSameFilesChanged |-> FALSE]

\* the initial values of the useState hooks of GitWindow
WindowState ==
  [drawerOpen |-> FALSE, selectedAction |-> Null, isProceeding |-> FALSE,
   sameFilesChanged |-> FALSE, messageDialogOpen |-> FALSE,
   shouldShowDiff |-> FALSE, diffDialogOpen |-> FALSE,
   showFakeMergeCommit |-> FALSE, isMergeFromReady |-> FALSE,
   showFakeRollbackCommit |-> FALSE,
   shouldMoveFeatureBranchCommits |-> FALSE, lastActionType |-> Null,
   showResetEffect |-> FALSE, treeRemountKey |-> 0,
   removeFeatureBranchCommits |-> FALSE, timer |-> NoTimer]

NotParsed == [done |-> FALSE, rows |-> << >>]

NoColorMap == [built |-> FALSE, entries |-> << >>]

NoTreeData ==
  [built |-> FALSE, nodes |-> << >>, branchColors |-> << >>,
   mainLineCommits |-> {}, mainBranch |-> Null]

\* the state of a tree that was mounted and has not run its effect
Mounted ==
  /\ treeData = NoTreeData
  /\ branchDescendants = {}
  /\ paths = << >>
  /\ svg = NoSvg
  /\ before = [taken |-> FALSE, branchColors |-> << >>]
  /\ parsed = NotParsed
  /\ branchColorMap = NoColorMap
  /\ window = WindowState
  /\ pc = "effect"

\* the generic lists of at most max rows
GenericLists(max) ==
  UNION { UNION { { GenericList(n, cplx, reg, refs) :
                      cplx \in [K -> DOMAIN ComplexParents(1)],
                      reg \in [(1..n) \ K -> DOMAIN RegularParents(1)],
                      refs \in [L -> DOMAIN RefTexts] } :
                  K \in {{}} \cup { {k} : k \in 1..n },
                  L \in { M \in SUBSET (1..n) : Cardinality(M) <= MaxLabelled } } :
          n \in 0..max }

\* every row of the table is measured
Init ==
  /\ \/ \E n \in 0..MaxCommits :
          \E K \in {{}} \cup { {k} : k \in 1..n }, L \in SUBSET (1..n) :
             /\ Cardinality(L) <= MaxLabelled
             /\ \E cplx \in [K -> DOMAIN ComplexParents(1)],
                   reg \in [(1..n) \ K -> DOMAIN RegularParents(1)],
                   refs \in [L -> DOMAIN RefTexts] :
                  allCommits = GenericList(n, cplx, reg, refs)
     \/ allCommits \in {SimpleBranchList, MergeList}
  /\ headerHeight = measuredHeaderHeight
  /\ rowPositions = MeasuredRows(Len(allCommits), headerHeight, measuredRowHeight)
  /\ Mounted

\* the effect on commitsKey: setTreeData(buildTreeStructure(allCommits)),
\* setTreeData(null) for the empty list
TreeEffect ==
  /\ pc = "effect"
  /\ IF Len(allCommits) = 0
     THEN /\ treeData' = NoTreeData
          /\ branchDescendants' = {}
          /\ pc' = "render"
     ELSE \E data \in {buildTreeStructure(allCommits)} :
            IF data.hung
            THEN /\ pc' = "hung"
                 /\ UNCHANGED << treeData, branchDescendants >>
            ELSE /\ treeData' = [built |-> TRUE, nodes |-> data.nodes,
                                 branchColors |-> data.branchColors,
                                 mainLineCommits |-> data.mainLineCommits,
                                 mainBranch |-> data.mainBranch]
                 /\ branchDescendants' = data.branchDescendants
                 /\ pc' = "render"
  /\ UNCHANGED << allCommits, rowPositions, headerHeight, paths, svg, before,
                  windowVars >>

\* the render that follows: the memos commitPositions and paths, and the
\* element that GitTree returns
Render ==
  /\ pc = "render"
  /\ IF ~treeData.built \/ Len(allCommits) = 0
     THEN paths' = << >> /\ svg' = NoSvg /\ pc' = "idle"
     ELSE \E positions \in {CommitPositions(allCommits, treeData.nodes,
                                             rowPositions, headerHeight)} :
          \E built \in {BuildPaths(allCommits, treeData, positions)} :
            IF built.hung
            THEN pc' = "hung" /\ UNCHANGED << paths, svg >>
            ELSE /\ paths' = built.paths
                 /\ svg' = Draw(allCommits, treeData, rowPositions, positions,
                                built.paths)
                 /\ pc' = "idle"
  /\ UNCHANGED << allCommits, rowPositions, headerHeight, treeData,
                  branchDescendants, before, windowVars >>

Next == TreeEffect \/ Render

Spec == Init /\ [][Next]_vars

\* the tree under partial measurement: rowPositions holds the measured
\* centres of the first k rows, for every k up to the length of the list
GeometryInit ==
  /\ allCommits \in GenericLists(MaxDrawn)
                      \cup { MainChain(n) : n \in 1..MaxChain }
                      \cup {SimpleBranchList, MergeList}
  /\ headerHeight = measuredHeaderHeight
  /\ \E k \in 0..Len(allCommits) :
        rowPositions = MeasuredRows(k, headerHeight, measuredRowHeight)
  /\ Mounted

GeometrySpec == GeometryInit /\ [][Next]_vars

\* the tree of a repository with many branches
TipsInit ==
  /\ allCommits \in TipLists
  /\ headerHeight = measuredHeaderHeight
  /\ rowPositions = MeasuredRows(Len(allCommits), headerHeight, measuredRowHeight)
  /\ Mounted

TipsSpec == TipsInit /\ [][Next]_vars

\* pieces of ref text, as git prints them between the commas of %D:
\*   "" | "HEAD" | "HEAD -> main" | "origin/HEAD" | "origin/main" | "main"
\*   | "dev" | "origin/dev" | "feature/topic" | "origin/feature/topic"
\*   | "origin/HEAD -> origin/main" | "main -> HEAD" | "HEAD -> origin/HEAD"
\*   | "upstream/dev" | "tag: v1.0"
RefPieces ==
  { BlankPiece,
    Plain("HEAD"),
    Ref(<<"HEAD">>, TRUE, <<"main">>),
    Ref(<<"origin", "HEAD">>, FALSE, << >>),
    Ref(<<"origin", "main">>, FALSE, << >>),
    Plain("main"),
    Plain("dev"),
    Ref(<<"origin", "dev">>, FALSE, << >>),
    Ref(<<"feature", "topic">>, FALSE, << >>),
    Ref(<<"origin", "feature", "topic">>, FALSE, << >>),
    Ref(<<"origin", "HEAD">>, TRUE, <<"origin", "main">>),
    Ref(<<"main">>, TRUE, <<"HEAD">>),
    Ref(<<"HEAD">>, TRUE, <<"origin", "HEAD">>),
    Ref(<<"upstream", "dev">>, FALSE, << >>),
    Plain("tag: v1.0") }

\* the ref texts of at most MaxRefs pieces
RawRefs == UNION { [1..n -> RefPieces] : n \in 0..MaxRefs }

\* a window that shows one commit with any ref text
ParserInit ==
  /\ \E refs \in RawRefs : allCommits = << Commit("c1", <<"">>, refs) >>
  /\ headerHeight = measuredHeaderHeight
  /\ rowPositions = MeasuredRows(Len(allCommits), headerHeight, measuredRowHeight)
  /\ Mounted

\* every call site parses the refs of every commit: the tree of
\* MessageDialog.tsx, the tree of GitTree.tsx, createBranchColorMap and the
\* rows of the window (hideRemoteBranches = true)
ParseRefs ==
  /\ ~parsed.done
  /\ parsed' = [done |-> TRUE,
                rows |-> [ i \in DOMAIN allCommits |->
                             [refs |-> allCommits[i].refs,
                              tree |-> parseBranchRefs(allCommits[i].refs),
                              classifier |-> parseBranchRefsGitTree(allCommits[i].refs),
                              colorer |-> parseBranchRefsColors(allCommits[i].refs),
                              labels |-> parseBranchRefsGitWindow(allCommits[i].refs, TRUE)] ]]
  /\ UNCHANGED << allCommits, rowPositions, headerHeight, treeData,
                  branchDescendants, paths, svg, before, branchColorMap,
                  window, pc >>

ParserSpec == ParserInit /\ [][ParseRefs]_vars

\* the memo branchColorMap of the window: createBranchColorMap(commits)
ColorMapMemo ==
  /\ ~branchColorMap.built
  /\ branchColorMap' = [built |-> TRUE, entries |-> createBranchColorMap(allCommits)]
  /\ UNCHANGED << allCommits, rowPositions, headerHeight, treeData,
                  branchDescendants, paths, svg, before, parsed, window, pc >>

\* the window with its badges around the tree
BadgeInit ==
  /\ allCommits \in TipLists \cup {SimpleBranchList, MergeList}
  /\ headerHeight = measuredHeaderHeight
  /\ rowPositions = MeasuredRows(Len(allCommits), headerHeight, measuredRowHeight)
  /\ Mounted

NextWithBadges == TreeEffect \/ Render \/ ColorMapMemo

BadgeSpec == BadgeInit /\ [][NextWithBadges]_vars

\* the list s without its row i
WithoutRow(s, i) == [ k \in 1..(Len(s) - 1) |-> IF k < i THEN s[k] ELSE s[k + 1] ]

\* the window passes the list with one commit deleted: the key of the tree
\* changes with the length of the list and the tree is mounted anew
RemoveCommit ==
  /\ pc = "idle"
  /\ treeData.built
  /\ ~before.taken
  /\ \E i \in DOMAIN allCommits :
        /\ allCommits' = WithoutRow(allCommits, i)
        /\ rowPositions' = WithoutRow(rowPositions, i)
  /\ before' = [taken |-> TRUE, branchColors |-> treeData.branchColors]
  /\ treeData' = NoTreeData
  /\ branchDescendants' = {}
  /\ paths' = << >>
  /\ svg' = NoSvg
  /\ pc' = "effect"
  /\ UNCHANGED << headerHeight, windowVars >>

NextWithRemoval == TreeEffect \/ Render \/ RemoveCommit

\* the tree component under a window that deletes a commit from the list
RemovalSpec == Init /\ [][NextWithRemoval]_vars

\* the ref texts a row carries after the list was fetched again: none, the
\* checked-out main branch, a branch
RowRefs == {<< >>, RefTexts[1], RefTexts[3]}

\* the window passes a list with the same commits and parents in which one
\* row carries other refs (the data was fetched again): the key of the tree
\* names the length and the ids of the list, not the refs, so the tree stays
\* mounted; it renders with the new prop and the state treeData it holds,
\* and its effect on commitsKey is pending after that render
ReplaceRefs ==
  /\ pc = "idle"
  /\ treeData.built
  /\ \E i \in DOMAIN allCommits, text \in RowRefs :
        /\ text # allCommits[i].refs
        /\ allCommits' = [allCommits EXCEPT ![i].refs = text]
  /\ \E positions \in {CommitPositions(allCommits', treeData.nodes,
                                       rowPositions, headerHeight)} :
     \E built \in {BuildPaths(allCommits', treeData, positions)} :
       IF built.hung
       THEN pc' = "hung" /\ UNCHANGED << paths, svg >>
       ELSE /\ paths' = built.paths
            /\ svg' = Draw(allCommits', treeData, rowPositions, positions,
                           built.paths)
            /\ pc' = "effect"
  /\ UNCHANGED << rowPositions, headerHeight, treeData, branchDescendants,
                  before, windowVars >>

\* the lists of the scenarios
UpdateInit ==
  /\ allCommits \in {SimpleBranchList, MergeList}
  /\ headerHeight = measuredHeaderHeight
  /\ rowPositions = MeasuredRows(Len(allCommits), headerHeight, measuredRowHeight)
  /\ Mounted

NextWithUpdate == TreeEffect \/ Render \/ ReplaceRefs

\* the tree component under a window that fetches the list again
UpdateSpec == UpdateInit /\ [][NextWithUpdate]_vars

\* ------------------------------------------------------------------------
\* The drawer and the dialogs of GitWindow

\* the tree and the memos of the window, which the handlers below leave alone
treeVars ==
  << allCommits, rowPositions, headerHeight, treeData, branchDescendants,
     paths, svg, before, parsed, branchColorMap, pc >>

Actions == {"late", "ready", "mistake", "rollback"}

\* the button "Should i git?" opens the drawer; the dialogs are modal, and
\* the user waits for the dialog of a confirmed action
OpenDrawer ==
  /\ ~window.drawerOpen
  /\ window.timer.stage \in {"none", "fired"}
  /\ ~window.messageDialogOpen
  /\ ~window.diffDialogOpen
  /\ window' = [window EXCEPT !.drawerOpen = TRUE]
  /\ UNCHANGED treeVars

\* a click on one of the four situations
SelectAction ==
  /\ window.drawerOpen
  /\ \E a \in Actions : window' = [window EXCEPT !.selectedAction = a]
  /\ UNCHANGED treeVars

\* the checkbox, which is shown while late is selected
ToggleSameFiles ==
  /\ window.drawerOpen
  /\ window.selectedAction = "late"
  /\ window' = [window EXCEPT !.sameFilesChanged = ~window.sameFilesChanged]
  /\ UNCHANGED treeVars

\* the button Close, and the effect on drawerOpen that resets the selection
CloseDrawer ==
  /\ window.drawerOpen
  /\ window' = [window EXCEPT !.drawerOpen = FALSE,
                              !.selectedAction = Null,
                              !.isProceeding = FALSE,
                              !.sameFilesChanged = FALSE]
  /\ UNCHANGED treeVars

\* handleProceed up to its setTimeout; one call is in flight at a time
handleProceed ==
  /\ window.drawerOpen
  /\ window.selectedAction # Null
  /\ ~window.isProceeding
  /\ window.timer.stage \in {"none", "fired"}
  /\ window' = [window EXCEPT
                  !.isProceeding = TRUE,
                  !.isMergeFromReady = FALSE,
                  !.shouldMoveFeatureBranchCommits = FALSE,
                  !.timer = [stage |-> "closing",
                             action |-> window.selectedAction,
                             hasSameFilesChanged |-> window.sameFilesChanged]]
  /\ UNCHANGED treeVars

\* the callback of the 1500 ms timer: the drawer closes and the flags of
\* the captured action are set
DrawerTimeout ==
  /\ window.timer.stage = "closing"
  /\ window.timer.action = "ready" => window.treeRemountKey < MaxRemounts
  /\ \E closed \in {[window EXCEPT !.isProceeding = FALSE,
                                   !.selectedAction = Null,
                                   !.sameFilesChanged = FALSE,
                                   !.drawerOpen = FALSE,
                                   !.lastActionType = window.timer.action,
                                   !.timer.stage = "opening"]} :
       window' =
         CASE window.timer.action = "late" ->
                [closed EXCEPT !.shouldMoveFeatureBranchCommits = TRUE,
                               !.isMergeFromReady = FALSE]
           [] window.timer.action = "ready" ->
                [closed EXCEPT !.isMergeFromReady = TRUE,
                               !.shouldMoveFeatureBranchCommits = FALSE,
                               !.removeFeatureBranchCommits = TRUE,
                               !.treeRemountKey = @ + 1]
           [] OTHER -> closed
  /\ UNCHANGED treeVars

\* the callback of the 300 ms timer: the message dialog opens
DialogTimeout ==
  /\ window.timer.stage = "opening"
  /\ window.timer.action = "mistake" => window.treeRemountKey < MaxRemounts
  /\ \E opened \in {[window EXCEPT !.messageDialogOpen = TRUE,
                                   !.timer.stage = "fired"]} :
       window' =
         CASE window.timer.action = "late" ->
                [opened EXCEPT !.shouldShowDiff = window.timer.hasSameFilesChanged]
           [] window.timer.action = "mistake" ->
                [opened EXCEPT !.showResetEffect = TRUE,
                               !.treeRemountKey = @ + 1]
           [] OTHER -> opened
  /\ UNCHANGED treeVars

\* onLastButtonClick: the button "Show me!" of the last slide; handleNext
\* calls it and nothing else, so onComplete is not called
onLastButtonClick ==
  /\ window.messageDialogOpen
  /\ (~window.shouldShowDiff /\ window.showResetEffect)
        => window.treeRemountKey < MaxRemounts
  /\ window' =
       IF window.shouldShowDiff
       THEN [window EXCEPT !.messageDialogOpen = FALSE,
                           !.diffDialogOpen = TRUE]
       ELSE IF window.showResetEffect
       THEN [window EXCEPT !.messageDialogOpen = FALSE,
                           !.treeRemountKey = @ + 1]
       ELSE CASE window.lastActionType = "late" ->
                   [window EXCEPT !.shouldMoveFeatureBranchCommits = TRUE,
                                  !.isMergeFromReady = FALSE,
                                  !.messageDialogOpen = FALSE,
                                  !.showFakeMergeCommit = TRUE]
              [] window.lastActionType = "ready" ->
                   [window EXCEPT !.isMergeFromReady = TRUE,
                                  !.shouldMoveFeatureBranchCommits = FALSE,
                                  !.messageDialogOpen = FALSE,
                                  !.showFakeMergeCommit = TRUE]
              [] window.lastActionType = "rollback" ->
                   [window EXCEPT !.showFakeRollbackCommit = TRUE,
                                  !.messageDialogOpen = FALSE]
              [] OTHER ->
                   [window EXCEPT !.messageDialogOpen = FALSE,
                                  !.showFakeMergeCommit = TRUE]
  /\ UNCHANGED treeVars

\* handleClose of the message dialog
handleClose ==
  /\ window.messageDialogOpen
  /\ window' = [window EXCEPT !.messageDialogOpen = FALSE]
  /\ UNCHANGED treeVars

\* onMerge of the diff dialog
onMerge ==
  /\ window.diffDialogOpen
  /\ window' = [window EXCEPT !.isMergeFromReady = TRUE,
                              !.shouldMoveFeatureBranchCommits = TRUE,
                              !.showFakeMergeCommit = TRUE]
  /\ UNCHANGED treeVars

\* onOpenChange of the diff dialog
CloseDiffDialog ==
  /\ window.diffDialogOpen
  /\ window' = [window EXCEPT !.diffDialogOpen = FALSE]
  /\ UNCHANGED treeVars

WindowInit ==
  /\ allCommits = SimpleBranchList
  /\ headerHeight = measuredHeaderHeight
  /\ rowPositions = MeasuredRows(Len(allCommits), headerHeight, measuredRowHeight)
  /\ Mounted

WindowNext ==
  \/ OpenDrawer \/ SelectAction \/ ToggleSameFiles \/ CloseDrawer
  \/ handleProceed \/ DrawerTimeout \/ DialogTimeout
  \/ onLastButtonClick \/ handleClose \/ onMerge \/ CloseDiffDialog

\* the window under a user who opens the drawer, confirms situations and
\* steps through the dialogs
WindowSpec == WindowInit /\ [][WindowNext]_vars

\* a page of the table with the commits that the window names
paginatedCommits ==
  << [abbreviated_commit |-> "876369a", refs |-> RefTexts[1]],
     [abbreviated_commit |-> "09af298", refs |-> RefTexts[3]],
     [abbreviated_commit |-> "3ad0351", refs |-> << >>],
     [abbreviated_commit |-> "48975f5", refs |-> << >>],
     [abbreviated_commit |-> "ba78722", refs |-> << >>] >>

FeatureBranchCommits == {"09af298", "3ad0351"}

\* the rows of the table: commitsToRender of the window in state w, by the
\* abbreviated commits of its rows
commitsToRender(w) ==
  LET rows == paginatedCommits
      baIndex == IF \E i \in DOMAIN rows : rows[i].abbreviated_commit = "ba78722"
                 THEN CHOOSE i \in DOMAIN rows :
                        /\ rows[i].abbreviated_commit = "ba78722"
                        /\ \A j \in 1..(i - 1) : rows[j].abbreviated_commit # "ba78722"
                 ELSE 0
      OnMain(i) == \E k \in DOMAIN parseBranchRefsGitWindow(rows[i].refs, TRUE) :
                     parseBranchRefsGitWindow(rows[i].refs, TRUE)[k] \in {"main", "master"}
      resetGone == IF w.showResetEffect
                   THEN { i \in DOMAIN rows :
                            \/ i < baIndex /\ OnMain(i)
                            \/ rows[i].abbreviated_commit \in {"876369a", "48975f5"} }
                   ELSE {}
      readyGone == IF w.removeFeatureBranchCommits
                   THEN { i \in DOMAIN rows :
                            rows[i].abbreviated_commit \in FeatureBranchCommits }
                   ELSE {}
      kept == [ i \in DOMAIN SelectSeq([ j \in DOMAIN rows |-> j ],
                                       LAMBDA j : j \notin resetGone \cup readyGone) |->
                  rows[SelectSeq([ j \in DOMAIN rows |-> j ],
                                 LAMBDA j : j \notin resetGone \cup readyGone)[i]].abbreviated_commit ]
      moved == IF w.showFakeMergeCommit /\ w.shouldMoveFeatureBranchCommits
                  /\ ~w.removeFeatureBranchCommits
               THEN SelectSeq(kept, LAMBDA c : c \in FeatureBranchCommits)
                    \o SelectSeq(kept, LAMBDA c : c \notin FeatureBranchCommits)
               ELSE kept
      merged == IF w.showFakeMergeCommit /\ w.isMergeFromReady
                THEN << "abc123" >> \o moved ELSE moved
  IN  IF w.showFakeRollbackCommit THEN << "xyz789" >> \o merged ELSE merged


\* ------------------------------------------------------------------------
\* Properties
\* ------------------------------------------------------------------------
Ids == CommitIds(allCommits)

Node(id) == treeData.nodes[id]

\* the commits that the merge handling forces to the main line
ForcedByMerge ==
  { allCommits[i].commit : i \in
      { j \in DOMAIN allCommits :
          /\ Len(ParentsOf(allCommits[j].parent)) > 1
          /\ \E p \in Range(ParentsOf(allCommits[j].parent)) :
                p \in treeData.mainLineCommits } }

PathsOfKind(kind) == SelectSeq(paths, LAMBDA p : p.kind = kind)

\* C1: in the result of buildTreeStructure a node has lane 0 exactly when
\* it is on the main line, and every commit forced by the merge handling
\* has lane 0 and is on the main line.
LaneIffMainLine ==
  treeData.built =>
    /\ \A id \in Ids : (Node(id).lane = 0) <=> Node(id).isOnMainLine
    /\ \A id \in ForcedByMerge : Node(id).lane = 0 /\ Node(id).isOnMainLine

\* a forced merge commit that carries a branch ref, next to a branch commit
LaneIffMainLineWitness ==
  /\ treeData.built
  /\ \E id \in ForcedByMerge : Len(Node(id).branchRefs) > 0
  /\ \E id \in Ids : Node(id).lane > 0

\* C2: a commit with more than one parent and a parent in mainLineCommits
\* has lane 0 and is on the main line, whatever refs it carries and
\* whatever lane the tip assignment or the propagation gave it.
MergeForcedToMain ==
  treeData.built =>
    \A i \in DOMAIN allCommits :
       LET parents == ParentsOf(allCommits[i].parent)
       IN (Len(parents) > 1 /\ \E k \in DOMAIN parents : parents[k] \in treeData.mainLineCommits)
          => Node(allCommits[i].commit).lane = 0 /\ Node(allCommits[i].commit).isOnMainLine

\* a forced merge commit whose primary ref names a branch with a lane
MergeForcedToMainWitness ==
  /\ treeData.built
  /\ \E id \in ForcedByMerge :
        /\ Len(Node(id).branchRefs) > 0
        /\ HasColor(treeData.branchColors, Node(id).branchRefs[1])

\* C3: the classification and the path construction of every list come to
\* an end: no traversal of buildTreeStructure or of the path construction
\* runs beyond the number of commits, also for lists with a self parent, a
\* parent cycle or an absent parent.
ClassifyAndPathsTerminate == pc # "hung"

\* rendered, for a list in which two commits name each other as parents and
\* another commit names a parent that is absent
ClassifyAndPathsTerminateWitness ==
  /\ pc = "idle"
  /\ treeData.built
  /\ \E i, j \in DOMAIN allCommits :
        /\ i # j
        /\ Includes(ParentsOf(allCommits[i].parent), allCommits[j].commit)
        /\ Includes(ParentsOf(allCommits[j].parent), allCommits[i].commit)
  /\ \E i \in DOMAIN allCommits :
        \E p \in Range(ParentsOf(allCommits[i].parent)) : p \notin Ids

\* the commits whose only parent id is absent from the list
Dangling ==
  { i \in DOMAIN allCommits :
      /\ Len(ParentsOf(allCommits[i].parent)) = 1
      /\ ParentsOf(allCommits[i].parent)[1] \notin Ids }

\* C4: a commit whose only parent is absent from the list has a node with a
\* lane, lane 0 on the main line when it carries no ref and is no branch
\* descendant, and every end of every path is a commit of the list.
DanglingParentTolerated ==
  pc = "idle" /\ treeData.built =>
    /\ \A i \in Dangling :
          LET id == allCommits[i].commit
          IN /\ HasNode(treeData.nodes, id)
             /\ Node(id).lane >= 0
             /\ (Len(Node(id).branchRefs) = 0 /\ id \notin branchDescendants)
                  => (Node(id).lane = 0 /\ Node(id).isOnMainLine)
    /\ \A k \in DOMAIN paths : paths[k].from.commit \in Ids /\ paths[k].to.commit \in Ids

\* rendered with paths, for a list with an unlabelled commit off the main
\* line whose only parent is absent
DanglingParentToleratedWitness ==
  /\ pc = "idle"
  /\ treeData.built
  /\ Len(paths) > 0
  /\ \E i \in Dangling :
        /\ Len(Node(allCommits[i].commit).branchRefs) = 0
        /\ allCommits[i].commit \notin branchDescendants
        /\ allCommits[i].commit \notin treeData.mainLineCommits

\* C8: for the simple-branch list C1 and M1 are on lane 0 and the main
\* line, C2 and C3 are on lane 1 and drawn in palette[1].
SimpleBranchClassification ==
  (allCommits = SimpleBranchList /\ treeData.built) =>
    /\ \A id \in {"C1", "M1"} : Node(id).lane = 0 /\ Node(id).isOnMainLine
    /\ \A id \in {"C2", "C3"} :
          /\ Node(id).lane = 1
          /\ ~Node(id).isOnMainLine
          /\ DotColor(treeData.nodes, treeData.branchColors, id) = Palette(1)

SimpleBranchClassificationWitness ==
  /\ allCommits = SimpleBranchList
  /\ treeData.built
  /\ Node("C2").lane = 1

\* C9 as stated: for the simple-branch list there is exactly one divergence
\* segment, from M1 to C3, and no merge-back segment.
SimpleBranchPathsFromM1 ==
  (allCommits = SimpleBranchList /\ pc = "idle") =>
    /\ Len(PathsOfKind("divergence")) = 1
    /\ PathsOfKind("divergence")[1].from.commit = "M1"
    /\ PathsOfKind("divergence")[1].to.commit = "C3"
    /\ Len(PathsOfKind("mergeback")) = 0

\* C9 amended: for the simple-branch list there is exactly one divergence
\* segment, from C1 (the commit that carries main, the nearest main-line
\* ancestor of C3) to C3, and no merge-back segment.
SimpleBranchPathsFromC1 ==
  (allCommits = SimpleBranchList /\ pc = "idle") =>
    /\ Len(PathsOfKind("divergence")) = 1
    /\ PathsOfKind("divergence")[1].from.commit = "C1"
    /\ PathsOfKind("divergence")[1].to.commit = "C3"
    /\ Len(PathsOfKind("mergeback")) = 0

SimpleBranchPathsWitness ==
  /\ allCommits = SimpleBranchList
  /\ pc = "idle"
  /\ Len(PathsOfKind("divergence")) > 0

\* C10: for the merge list M0 is on lane 0 and the main line although its
\* parent C3 is a branch commit, and a merge-back segment runs from C3 to M0.
MergeScenario ==
  (allCommits = MergeList /\ pc = "idle") =>
    /\ Node("M0").lane = 0
    /\ Node("M0").isOnMainLine
    /\ Node("C3").lane > 0
    /\ \E k \in DOMAIN paths :
          /\ paths[k].kind = "mergeback"
          /\ paths[k].from.commit = "C3"
          /\ paths[k].to.commit = "M0"

MergeScenarioWitness ==
  /\ allCommits = MergeList
  /\ pc = "idle"
  /\ Len(PathsOfKind("mergeback")) = 1


\* some commit of the list carries the branch name
Carried(name) ==
  \E i \in DOMAIN allCommits : Includes(parseBranchRefs(allCommits[i].refs), name)

\* C5: the main branch is "main" whenever a commit carries main, also when
\* a commit that carries master comes earlier in the list; it is "master"
\* when no commit carries main and one carries master; it is null otherwise.
MainBranchPrefersMain ==
  treeData.built =>
    treeData.mainBranch = IF Carried("main") THEN "main"
                          ELSE IF Carried("master") THEN "master"
                          ELSE Null

\* C6: every commit whose refs contain the main branch name has lane 0 and
\* is on the main line, also when it carries other branch names, and the
\* main branch name is no key of branchColors.
MainTipOnLaneZero ==
  (treeData.built /\ treeData.mainBranch # Null) =>
    /\ \A id \in Ids :
          Includes(Node(id).branchRefs, treeData.mainBranch)
            => (Node(id).lane = 0 /\ Node(id).isOnMainLine)
    /\ ~HasColor(treeData.branchColors, treeData.mainBranch)

\* C7: when a list is obtained from another by deleting commits, every
\* branch with an entry in branchColors of the shorter list has the same
\* lane and the same colour in branchColors of the longer list.
ColorStableUnderDeletion ==
  (before.taken /\ treeData.built) =>
    \A k \in DOMAIN treeData.branchColors :
       \E j \in DOMAIN before.branchColors :
          /\ before.branchColors[j].branch = treeData.branchColors[k].branch
          /\ before.branchColors[j].lane = treeData.branchColors[k].lane
          /\ before.branchColors[j].color = treeData.branchColors[k].color

\* the shapes of the drawing that are straight lines
LineShapes == SelectSeq(svg.shapes, LAMBDA sh : sh.shape = "line")

\* C11: a single parent chain of N >= 2 commits on the main branch (N = 5
\* included) yields exactly N - 1 direct edges and no divergence or
\* merge-back segment, and its drawing has exactly one spine line and
\* N - 1 straight lines.
MainChainEdgeCount ==
  \A n \in 2..MaxChain :
     (pc = "idle" /\ allCommits = MainChain(n)) =>
        /\ Len(PathsOfKind("direct")) = n - 1
        /\ PathsOfKind("divergence") = << >>
        /\ PathsOfKind("mergeback") = << >>
        /\ svg.rendered => /\ Len(svg.spine) = 1
                           /\ Len(LineShapes) = n - 1
                           /\ Len(svg.shapes) = n - 1

\* the drawing of the chain of 5 commits
MainChainEdgeCountWitness ==
  /\ pc = "idle"
  /\ allCommits = MainChain(5)
  /\ svg.rendered
  /\ Len(svg.spine) = 1
  /\ Len(LineShapes) = 4

\* C12: every direct edge joins a commit of the list and one of its parents
\* that is in the list, the two have the same lane and the same main-line
\* status, and the edge is drawn as a straight vertical line.
DirectEdgesSameLane ==
  pc = "idle" =>
    \A k \in DOMAIN paths :
       paths[k].kind = "direct" =>
         /\ paths[k].from.commit \in Ids
         /\ paths[k].to.commit \in Ids
         /\ Includes(ParentsOf(Node(paths[k].from.commit).parent), paths[k].to.commit)
         /\ Node(paths[k].from.commit).lane = Node(paths[k].to.commit).lane
         /\ Node(paths[k].from.commit).isOnMainLine
              = Node(paths[k].to.commit).isOnMainLine
         /\ svg.rendered => /\ svg.shapes[k].shape = "line"
                            /\ svg.shapes[k].x1 = svg.shapes[k].x2

\* a drawing with a direct edge on a branch lane, of a list in which a
\* commit and its parent are on different lanes
DirectEdgesSameLaneWitness ==
  /\ pc = "idle"
  /\ svg.rendered
  /\ \E k \in DOMAIN paths :
        /\ paths[k].kind = "direct"
        /\ paths[k].from.lane > 0
        /\ svg.shapes[k].shape = "line"
  /\ \E id \in Ids :
        \E p \in Range(ParentsOf(Node(id).parent)) \cap Ids :
           Node(id).lane # Node(p).lane

\* the y of the dots of the commits that are classified main-line
MainLineDotYs ==
  { svg.dots[i].cy : i \in { j \in DOMAIN svg.dots :
                              Node(svg.dots[j].commit).isOnMainLine } }

\* the one spine of the drawing: a vertical line on the main axis from the
\* smallest to the largest y of the main-line commits
OneSpine ==
  /\ Len(svg.spine) = 1
  /\ svg.spine[1].x1 = mainLineX
  /\ svg.spine[1].x2 = mainLineX
  /\ svg.spine[1].y1 \in MainLineDotYs
  /\ svg.spine[1].y2 \in MainLineDotYs
  /\ \A y \in MainLineDotYs : svg.spine[1].y1 <= y /\ y <= svg.spine[1].y2

\* C13 as stated: whenever at least one commit is classified main-line, one
\* commit in the list being enough, the drawing has exactly one spine, and
\* it has none when no commit is main-line.
SpineWheneverMainLine ==
  (pc = "idle" /\ svg.rendered) =>
     IF MainLineDotYs # {} THEN OneSpine ELSE svg.spine = << >>

\* C13: in the drawing of a list of more than one commit with at least one
\* main-line commit there is exactly one spine, a vertical line on the main
\* axis from the smallest to the largest y of the main-line commits; there
\* is no spine when no commit is main-line or the list holds one commit.
SpineOfLongerList ==
  (pc = "idle" /\ svg.rendered) =>
     IF MainLineDotYs # {} /\ Len(allCommits) > 1 THEN OneSpine
     ELSE svg.spine = << >>

\* a drawing whose spine is shorter than the list: a main-line commit next
\* to a row that is not main-line and lies outside the spine
SpineOfLongerListWitness ==
  /\ pc = "idle"
  /\ svg.rendered
  /\ OneSpine
  /\ \E i \in DOMAIN svg.dots :
        /\ ~Node(svg.dots[i].commit).isOnMainLine
        /\ svg.dots[i].cy > svg.spine[1].y2

\* C14: for every rowPositions shorter than the list of commits, the empty
\* one included, the tree is drawn with one dot per commit, the dot of row
\* i at rowPositions[i] when that entry exists and at
\* headerHeight + i * 40 + 20 otherwise.
DotPerCommit ==
  (pc = "idle" /\ treeData.built /\ Len(rowPositions) < Len(allCommits)) =>
     /\ svg.rendered
     /\ Len(svg.dots) = Len(allCommits)
     /\ \A i \in DOMAIN svg.dots :
           /\ svg.dots[i].commit = allCommits[i].commit
           /\ svg.dots[i].cy =
                IF i <= Len(rowPositions) THEN rowPositions[i]
                ELSE headerHeight + (i - 1) * defaultRowHeight
                       + defaultRowHeight \div 2

\* the numbers of the paths that are divergence or merge-back paths
BranchPaths == { k \in DOMAIN paths : paths[k].kind \in {"divergence", "mergeback"} }

FirstPrimaries(commits, mainBranch) ==
  FoldLeft(LAMBDA acc, c :
             LET branchRefs == parseBranchRefs(c.refs)
             IN IF Len(branchRefs) = 0 \/ branchRefs[1] = mainBranch
                   \/ Includes(acc, branchRefs[1])
                THEN acc ELSE Append(acc, branchRefs[1]),
           << >>, Reverse(commits))

EntryNames == { treeData.branchColors[k].branch : k \in DOMAIN treeData.branchColors }

\* the names other than the main branch in the parsed refs of any commit
NonMainNames ==
  UNION { Range(parseBranchRefs(allCommits[i].refs)) : i \in DOMAIN allCommits }
    \ {treeData.mainBranch}

\* the names other than the main branch that come first in the parsed refs
\* of a commit
NonMainPrimaries ==
  { parseBranchRefs(allCommits[i].refs)[1] :
      i \in { j \in DOMAIN allCommits : Len(parseBranchRefs(allCommits[j].refs)) > 0 } }
    \ {treeData.mainBranch}

\* one entry per name, lanes 1..k in the order of creation
OneEntryPerName ==
  /\ \A j, k \in DOMAIN treeData.branchColors :
       treeData.branchColors[j].branch = treeData.branchColors[k].branch => j = k
  /\ \A k \in DOMAIN treeData.branchColors : treeData.branchColors[k].lane = k

\* C17 as stated: branchColors holds exactly one entry for each distinct
\* name, other than the main branch, in the parsed refs of any commit, and
\* the lanes of the entries are 1..k in the order of creation.
EntryPerParsedName ==
  treeData.built => (EntryNames = NonMainNames /\ OneEntryPerName)

\* C17: branchColors holds exactly one entry for each distinct name that
\* comes first in the parsed refs of a commit and differs from the detected
\* main branch, and the lanes of the entries are 1..k in the order of
\* creation.
EntryPerPrimaryName ==
  treeData.built => (EntryNames = NonMainPrimaries /\ OneEntryPerName)

\* two entries, a name that two tips carry, and a name that only comes
\* second in the refs of a commit
EntryPerPrimaryNameWitness ==
  /\ treeData.built
  /\ Len(treeData.branchColors) >= 2
  /\ NonMainNames # NonMainPrimaries
  /\ \E i, j \in DOMAIN allCommits :
       /\ i # j
       /\ parseBranchRefs(allCommits[i].refs)[1] = parseBranchRefs(allCommits[j].refs)[1]
       /\ parseBranchRefs(allCommits[i].refs)[1] \in EntryNames

\* ------------------------------------------------------------------------
\* The ref parsers
\* ------------------------------------------------------------------------
\* the name that a piece of ref text points at: what follows "HEAD -> " if
\* the piece has a pointer, the whole piece otherwise
Target(piece) == IF piece.arrow THEN piece.rhs ELSE piece.lhs

\* the names that the pieces of a ref text stand for: the target without a
\* leading "origin/", when that is a plain name other than HEAD
NamesOfText(refs) ==
  { n \in Range(NameOrder) \ {"HEAD"} :
      \E i \in DOMAIN refs : Target(refs[i]) \in { <<n>>, <<"origin", n>> } }

\* ascending in the order of String.prototype.sort, without duplicates
Ascending(names) ==
  \A i, j \in DOMAIN names : i < j => NameRank(names[i]) < NameRank(names[j])

\* the names of one result of a parser are clean
CleanNames(refs, names) ==
  /\ Ascending(names)
  /\ "HEAD" \notin Range(names)
  /\ Range(names) = NamesOfText(refs)
  /\ (\A i \in DOMAIN refs : refs[i] = Ref(<< >>, FALSE, << >>)) => names = << >>

\* C18: for every ref text, parseBranchRefs of the tree and parseBranchRefs
\* of branch-colors.ts return a list that is sorted ascending without
\* duplicates, holds no HEAD marker, and holds the names of the text with the
\* "HEAD -> " pointer and a leading "origin/" removed; an empty or blank text
\* gives the empty list.
ParsedNamesClean ==
  parsed.done =>
    \A i \in DOMAIN parsed.rows :
      /\ CleanNames(parsed.rows[i].refs, parsed.rows[i].tree)
      /\ CleanNames(parsed.rows[i].refs, parsed.rows[i].colorer)

\* "HEAD -> main, origin/dev" is parsed to [dev, main], and a blank text
\* to the empty list
ParsedNamesCleanWitness ==
  /\ parsed.done
  /\ parsed.rows[1].refs =
       << Ref(<<"HEAD">>, TRUE, <<"main">>), Ref(<<"origin", "dev">>, FALSE, << >>) >>
  /\ parsed.rows[1].tree = << "dev", "main" >>
  /\ parsed.rows[1].colorer = << "dev", "main" >>

\* C19 as stated: for every ref text the parser of the classifier
\* (GitTree.tsx), the parser of the colorer (branch-colors.ts) and the
\* parser of the labels (GitWindow.tsx, hideRemoteBranches = true) return
\* the same list of branch names.
ParsersAgree ==
  parsed.done =>
    \A i \in DOMAIN parsed.rows :
      /\ parsed.rows[i].classifier = parsed.rows[i].colorer
      /\ parsed.rows[i].colorer = parsed.rows[i].labels

\* the colorer and the labels agree
ColorerAndLabelsAgree ==
  parsed.done =>
    \A i \in DOMAIN parsed.rows : parsed.rows[i].colorer = parsed.rows[i].labels

\* ------------------------------------------------------------------------
\* Badge colours
\* ------------------------------------------------------------------------
\* C20 as stated: for every commit list, createBranchColorMap gives every
\* branch that has an entry in branchColors of buildTreeStructure the colour
\* of that entry (the badge colour is the lane colour), and gives the main
\* branch palette[0].
BadgeColorIsLaneColor ==
  (treeData.built /\ branchColorMap.built) =>
    /\ \A k \in DOMAIN treeData.branchColors :
         LET name == treeData.branchColors[k].branch
         IN /\ HasColor(branchColorMap.entries, name)
            /\ GetColor(branchColorMap.entries, name).color
                 = treeData.branchColors[k].color
    /\ (treeData.mainBranch # Null
          /\ HasColor(branchColorMap.entries, treeData.mainBranch))
         => GetColor(branchColorMap.entries, treeData.mainBranch).color
              = BRANCH_COLORS[1]

\* the main branch has palette[0] in the colour map whenever it has an entry
MainBadgeIsBlue ==
  (treeData.built /\ branchColorMap.built /\ treeData.mainBranch # Null
     /\ HasColor(branchColorMap.entries, treeData.mainBranch))
    => GetColor(branchColorMap.entries, treeData.mainBranch).color = BRANCH_COLORS[1]

\* ------------------------------------------------------------------------
\* Branch descendants and the main line
\* ------------------------------------------------------------------------
\* the parent ids of a commit of the list that are commits of the list
ParentsInList(id) ==
  UNION { Range(ParentsOf(allCommits[i].parent)) :
            i \in { j \in DOMAIN allCommits : allCommits[j].commit = id } } \cap Ids

\* the commits reached from the set S along parent ids without entering
\* a commit of blocked
RECURSIVE ReachedByParents(_, _)
ReachedByParents(S, blocked) ==
  LET next == S \cup { p \in Ids \ blocked : \E c \in S : p \in ParentsInList(c) }
  IN IF next = S THEN S ELSE ReachedByParents(next, blocked)

\* the first commit of the list that carries the main branch, as a set
MainTips ==
  IF MainTipIndex(allCommits, treeData.mainBranch) = 0 THEN {}
  ELSE { allCommits[MainTipIndex(allCommits, treeData.mainBranch)].commit }

\* the main tip and its ancestors
AncestorsOfMainTip == ReachedByParents(MainTips, {})

\* the commits whose parsed refs hold a name other than the main branch
CarryNonMainRef ==
  { allCommits[i].commit : i \in
      { j \in DOMAIN allCommits :
          \E n \in Range(parseBranchRefs(allCommits[j].refs)) : n # treeData.mainBranch } }

\* the commits whose parsed refs hold neither the main branch nor master
CarryOnlyBranchRefs ==
  { allCommits[i].commit : i \in
      { j \in DOMAIN allCommits :
          /\ parseBranchRefs(allCommits[j].refs) # << >>
          /\ \A n \in Range(parseBranchRefs(allCommits[j].refs)) :
                n \notin {treeData.mainBranch, "master"} } }

\* marked branch-descendant, off the main line on a lane > 0 unless the
\* merge handling forces the commit to lane 0
OwnedByBranch(id) ==
  /\ id \in branchDescendants
  /\ \/ id \in ForcedByMerge /\ Node(id).lane = 0
     \/ ~Node(id).isOnMainLine /\ Node(id).lane > 0

\* C21 as stated: when a main tip exists, every commit reached along parent
\* ids from a commit that carries a ref other than the main branch, up to
\* but excluding the first ancestor of the main tip, is marked
\* branch-descendant and ends off the main line on a lane > 0, unless the
\* merge handling forces it to lane 0.
BranchSideOwnedAnyRef ==
  (treeData.built /\ MainTips # {}) =>
    \A id \in ReachedByParents(CarryNonMainRef \ AncestorsOfMainTip, AncestorsOfMainTip) :
       OwnedByBranch(id)

\* the same for the commits reached from a commit whose refs hold neither
\* the main branch nor master: these are the commits that the marking
\* starts from
BranchSideOwned ==
  (treeData.built /\ MainTips # {}) =>
    \A id \in ReachedByParents(CarryOnlyBranchRefs \ AncestorsOfMainTip, AncestorsOfMainTip) :
       OwnedByBranch(id)

\* an unlabelled commit between a branch tip and the main line
BranchSideOwnedWitness ==
  /\ treeData.built
  /\ MainTips # {}
  /\ \E id \in ReachedByParents(CarryOnlyBranchRefs \ AncestorsOfMainTip, AncestorsOfMainTip) :
        /\ id \notin CarryNonMainRef
        /\ Node(id).lane > 0
        /\ ParentsInList(id) \cap AncestorsOfMainTip # {}

\* a commit below a master tip that is no ancestor of the main tip ends on
\* the main line
MasterSideOnMainLine ==
  /\ treeData.built
  /\ treeData.mainBranch = "main"
  /\ \E id \in ReachedByParents(CarryNonMainRef \ AncestorsOfMainTip, AncestorsOfMainTip) :
        /\ id \notin CarryNonMainRef
        /\ Node(id).isOnMainLine
        /\ Node(id).lane = 0
        /\ id \notin ForcedByMerge

\* the commits of the list that have id among their parent ids
ChildrenInList(id) == { c \in Ids : id \in ParentsInList(c) }

\* the lanes > 0 of the nearest commits that have one, walking breadth
\* first from frontier along Step; the empty set when there is none
RECURSIVE NearestLanes(_, _, _)
NearestLanes(Step(_), frontier, seen) ==
  LET next == UNION { Step(c) : c \in frontier } \ seen
      hit == { Node(c).lane : c \in { d \in next : Node(d).lane > 0 } }
  IN IF next = {} THEN {}
     ELSE IF hit # {} THEN hit
     ELSE NearestLanes(Step, next, seen \cup next)

\* forward through the children first, then backward through the parents
NearestBranchLanes(id) ==
  IF NearestLanes(ChildrenInList, {id}, {id}) # {}
  THEN NearestLanes(ChildrenInList, {id}, {id})
  ELSE NearestLanes(ParentsInList, {id}, {id})

\* the commits without a branch name that are marked branch-descendant
UnlabelledDescendants ==
  { allCommits[i].commit : i \in
      { j \in DOMAIN allCommits :
          /\ parseBranchRefs(allCommits[j].refs) = << >>
          /\ allCommits[j].commit \in branchDescendants
          /\ allCommits[j].commit \notin ForcedByMerge } }

\* C22 as stated: an unlabelled commit marked branch-descendant gets the
\* lane of the one branch colour when exactly one exists; when two or more
\* exist it gets the nearest assigned lane > 0, found forward through its
\* children and then backward through its parents.
DescendantTakesNearestLane ==
  treeData.built =>
    \A id \in UnlabelledDescendants :
       IF Len(treeData.branchColors) = 1
       THEN Node(id).lane = treeData.branchColors[1].lane
       ELSE Len(treeData.branchColors) >= 2 => Node(id).lane \in NearestBranchLanes(id)

\* what the propagation does: the lane of the first branch colour, however
\* many there are
DescendantTakesFirstLane ==
  treeData.built =>
    \A id \in UnlabelledDescendants :
       Len(treeData.branchColors) >= 1 => Node(id).lane = treeData.branchColors[1].lane

\* the names in the parsed refs of the commit id
NamesOf(id) ==
  UNION { Range(parseBranchRefs(allCommits[i].refs)) :
            i \in { j \in DOMAIN allCommits : allCommits[j].commit = id } }

\* C23 as stated: no commit of mainLineCommits is marked branch-descendant
\* and none carries a ref that names a branch other than the main branch.
MainLineOwnsNothing ==
  treeData.built =>
    \A id \in treeData.mainLineCommits :
       /\ id \notin branchDescendants
       /\ NamesOf(id) \subseteq {treeData.mainBranch}

\* C23: no commit of mainLineCommits other than the main tip is marked
\* branch-descendant, and none other than the main tip carries a ref that
\* names a branch other than the main branch and master.
MainLineBelowTipOwnsNothing ==
  treeData.built =>
    \A id \in treeData.mainLineCommits \ MainTips :
       /\ id \notin branchDescendants
       /\ NamesOf(id) \subseteq {treeData.mainBranch, "master"}

\* the main line has a commit below the main tip and leaves out a parent
\* that is marked branch-descendant
MainLineBelowTipOwnsNothingWitness ==
  /\ treeData.built
  /\ treeData.mainLineCommits \ MainTips # {}
  /\ \E id \in treeData.mainLineCommits :
        \E p \in ParentsInList(id) :
           p \notin treeData.mainLineCommits /\ p \in branchDescendants

\* ------------------------------------------------------------------------
\* No main branch
\* ------------------------------------------------------------------------
NoMainRef == ~Carried("main") /\ ~Carried("master")

\* C24 as stated: when no commit carries main or master, mainBranch is null,
\* mainLineCommits is empty, and no node has isOnMainLine true or lane 0.
NoMainNoLaneZero ==
  (treeData.built /\ NoMainRef) =>
    /\ treeData.mainBranch = Null
    /\ treeData.mainLineCommits = {}
    /\ \A id \in Ids : ~Node(id).isOnMainLine /\ Node(id).lane # 0

\* the part on mainBranch and mainLineCommits alone
NoMainNoMainLine ==
  (treeData.built /\ NoMainRef) =>
    (treeData.mainBranch = Null /\ treeData.mainLineCommits = {})

\* ------------------------------------------------------------------------
\* Frames and the list they were drawn from

\* the state treeData that the effect stores for the list commits
ClassificationOf(commits) ==
  With(buildTreeStructure(commits),
       LAMBDA data : [built |-> TRUE, nodes |-> data.nodes,
                      branchColors |-> data.branchColors,
                      mainLineCommits |-> data.mainLineCommits,
                      mainBranch |-> data.mainBranch])

\* C25: a frame with dots or connectors is on the screen only while the
\* state treeData is the classification of the list in the prop allCommits;
\* no frame is drawn from a new list and the classification of the list
\* before it
FrameOfOwnList ==
  (svg.rendered /\ pc # "hung") => treeData = ClassificationOf(allCommits)

\* a frame was drawn after the refs of a row changed, from the nodes that
\* were computed before the change
StaleFrame ==
  /\ svg.rendered
  /\ pc = "effect"
  /\ treeData.built
  /\ treeData # ClassificationOf(allCommits)

\* ------------------------------------------------------------------------
\* The dialogs of the window

\* the dialog on the screen was opened by the last confirmed action
DialogOfLastAction ==
  /\ window.messageDialogOpen
  /\ window.timer.stage = "fired"

\* C26: "Show me!" in the dialog of the last confirmed action does what that
\* action stands for: rollback sets showFakeRollbackCommit, ready and late
\* without the checkbox set showFakeMergeCommit, mistake leaves the reset
\* effect shown, and the diff dialog opens exactly for late with the checkbox
ShowMeDoesLastAction ==
  [][ (DialogOfLastAction /\ onLastButtonClick) =>
        /\ window.timer.action = "rollback" => window'.showFakeRollbackCommit
        /\ window.timer.action = "ready" => window'.showFakeMergeCommit
        /\ (window.timer.action = "late" /\ ~window.timer.hasSameFilesChanged)
              => window'.showFakeMergeCommit
        /\ window.timer.action = "mistake" => window'.showResetEffect
        /\ window'.diffDialogOpen <=>
              (window.timer.action = "late" /\ window.timer.hasSameFilesChanged)
    ]_vars

\* the same for the first action that is confirmed after the page loaded
FirstShowMeDoesAction ==
  [][ (DialogOfLastAction /\ onLastButtonClick
       /\ ~window.shouldShowDiff
       /\ (window.showResetEffect => window.timer.action = "mistake")) =>
        /\ window.timer.action = "rollback" => window'.showFakeRollbackCommit
        /\ window.timer.action = "ready" => window'.showFakeMergeCommit
        /\ window.timer.action = "late" => window'.showFakeMergeCommit
        /\ window.timer.action = "mistake" => window'.showResetEffect
        /\ ~window'.diffDialogOpen
    ]_vars

\* C27: the step that opens the dialog of mistake leaves showResetEffect
\* false and the rows of the table as they were; the reset is applied by
\* "Show me!"
OpeningKeepsList ==
  [][ (DialogTimeout /\ window.timer.action = "mistake"
       /\ ~window.showResetEffect) =>
        /\ ~window'.showResetEffect
        /\ commitsToRender(window') = commitsToRender(window)
    ]_vars

\* the dialog of mistake is open, "Show me!" was not clicked, and the rows
\* above ba78722 are gone from the table
ResetBeforeShowMe ==
  /\ DialogOfLastAction
  /\ window.timer.action = "mistake"
  /\ window.showResetEffect
  /\ commitsToRender(window) # commitsToRender(WindowState)

\* ------------------------------------------------------------------------
\* The main line set and the nodes

\* C28: every commit of mainLineCommits has a node with isOnMainLine true
\* and lane 0
MainLineSetOnLaneZero ==
  (pc = "idle" /\ treeData.built) =>
     \A id \in treeData.mainLineCommits :
        id \in Ids => (Node(id).isOnMainLine /\ Node(id).lane = 0)

\* ------------------------------------------------------------------------
\* Divergence segments

\* C29: a divergence segment starts at a commit on the main line at lane 0
\* and ends at another commit, which is off the main line on a lane above 0
DivergenceFromMainToBranch ==
  pc = "idle" =>
    \A k \in DOMAIN paths :
       paths[k].kind = "divergence" =>
          /\ paths[k].from.isOnMainLine /\ paths[k].from.lane = 0
          /\ paths[k].to.commit # paths[k].from.commit
          /\ ~paths[k].to.isOnMainLine /\ paths[k].to.lane > 0

\* the two ends of a divergence segment are different commits
DivergenceEndsDiffer ==
  pc = "idle" =>
    \A k \in DOMAIN paths :
       paths[k].kind = "divergence" => paths[k].to.commit # paths[k].from.commit

\* a divergence segment starts at a commit of mainLineCommits
DivergenceFromMainLineSet ==
  (pc = "idle" /\ treeData.built) =>
    \A k \in DOMAIN paths :
       paths[k].kind = "divergence" =>
          paths[k].from.commit \in treeData.mainLineCommits

\* ------------------------------------------------------------------------
\* The colors of the dots

\* the first entry of branchColors with the lane
LaneEntries(lane) ==
  SelectSeq(treeData.branchColors, LAMBDA e : e.lane = lane)

\* C30: the dot of a commit on the main line has the main color, and the
\* dot of a commit on a lane k above 0 has the color of the entry of
\* branchColors with lane k, whatever refs the commit carries
DotColorByLane ==
  (pc = "idle" /\ svg.rendered) =>
     \A k \in DOMAIN svg.dots :
        /\ Node(svg.dots[k].commit).isOnMainLine
              => svg.dots[k].fill = Palette(0)
        /\ Node(svg.dots[k].commit).lane > 0
              => /\ LaneEntries(Node(svg.dots[k].commit).lane) # << >>
                 /\ svg.dots[k].fill =
                      LaneEntries(Node(svg.dots[k].commit).lane)[1].color

\* the dots of the commits on the main line that carry no ref have the main
\* color
UnlabelledMainDotIsBlue ==
  (pc = "idle" /\ svg.rendered) =>
     \A k \in DOMAIN svg.dots :
        (/\ Node(svg.dots[k].commit).isOnMainLine
         /\ Len(Node(svg.dots[k].commit).branchRefs) = 0)
           => svg.dots[k].fill = Palette(0)

\* the dots of the commits on the main line have the main color
MainDotIsBlue ==
  (pc = "idle" /\ svg.rendered) =>
     \A k \in DOMAIN svg.dots :
        Node(svg.dots[k].commit).isOnMainLine => svg.dots[k].fill = Palette(0)

\* the dots of the commits off the main line have the color of their lane
BranchDotHasLaneColor ==
  (pc = "idle" /\ svg.rendered) =>
     \A k \in DOMAIN svg.dots :
        (~Node(svg.dots[k].commit).isOnMainLine /\ Node(svg.dots[k].commit).lane > 0)
           => /\ LaneEntries(Node(svg.dots[k].commit).lane) # << >>
              /\ svg.dots[k].fill =
                   LaneEntries(Node(svg.dots[k].commit).lane)[1].color

====
